---- MODULE Spec2Model ----
(***************************************************************************)
(* A model of the lark virtual machine: the register file, the segmented   *)
(* memory with its MMIO dispatch, the instruction decoder, the             *)
(* fetch-decode-execute engine with its interrupt check, the exception     *)
(* handler and the debugger prompt.  The run loop of the engine is one     *)
(* process whose position is `phase`; the supervisor that enqueues         *)
(* interrupts and the user typing at the debugger prompt are its           *)
(* environment.                                                            *)
(***************************************************************************)
EXTENDS Integers, Sequences, FiniteSets, TLC

VARIABLES
    indexed,             \* RegisterFile.indexed: the 15 stored registers
    pc,                  \* Cpu.pc
    ir,                  \* Cpu.ir
    hi,                  \* Cpu.hi
    lo,                  \* Cpu.lo
    mem,                 \* Cpu.mem: the blocks rom, user, kernel and the vtty buffer
    interrupts_enabled,  \* Cpu.interrupts_enabled
    in_debug_mode,       \* Cpu.in_debug_mode
    breakpoints,         \* Cpu.breakpoints
    pending_interrupts,  \* the inbound interrupt channel
    supervisor,          \* every signal sent on the outbound channel, in order
    phase,               \* position of the engine inside Cpu::run / Cpu::step
    instr,               \* the local `instr` of decode_and_execute
    overflow_checks,     \* build profile: are arithmetic overflow checks compiled in
    budget,              \* what is left of the step, interrupt and command bounds
    executed,            \* the instructions run to their end so far, each with the
                         \* pc it was fetched at and the pc and the interrupt
                         \* dispatched at the start of its step
    step                 \* the step in progress: its number, the state it started
                         \* from, the interrupt it dispatched (irq), the assignments
                         \* typed at its prompt (dbg), the instruction before it (prev)

vars == <<indexed, pc, ir, hi, lo, mem, interrupts_enabled, in_debug_mode,
          breakpoints, pending_interrupts, supervisor, phase, instr,
          overflow_checks, budget, executed, step>>

-----------------------------------------------------------------------------
(* Bounds of the model.                                                    *)

MaxSteps == 6
MaxQueue == 2
MaxCmds == 2

-----------------------------------------------------------------------------
(* 16-bit words (utils.rs, union s16) and bit fields.                      *)

Pow2(n) == 2 ^ n

U16(x) == x % 65536

as_i16(u) == IF u >= 32768 THEN u - 65536 ELSE u

as_bool(u) == u # 0

\* The `n` bits of `x` whose lowest bit has weight 2^low.
Field(x, low, n) == (x \div Pow2(low)) % Pow2(n)

\* A u32 is kept as the pair <<high word, low word>>, because the model
\* checker's integers have 32 bits.  Field32 is Field on such a pair.
Word32(h, l) == <<h, l>>

Field32(w, low, n) ==
    IF low >= 16 THEN Field(w[1], low - 16, n)
    ELSE IF low + n <= 16 THEN Field(w[2], low, n)
    ELSE Field(w[1], 0, low + n - 16) * Pow2(16 - low) + Field(w[2], low, 16 - low)

\* The 32-bit product of two unsigned 16-bit words, as such a pair.
MulU32(x, y) ==
    LET a == x * (y % 256)
        b == x * (y \div 256)
        low == a + (b % 256) * 256
    IN  Word32((b \div 256) + (low \div 65536), low % 65536)

\* A signed product that keeps only its low half.
MulI32_low(x, y) == Word32(0, (x * y) % 65536)

\* The 32-bit two's-complement product of two signed 16-bit words.
MulI32(x, y) == Word32(U16((x * y) \div 65536), (x * y) % 65536)

\* Sign extension of an n-bit field, as load_le::<i16> does.
SignExtend(v, n) == IF v >= Pow2(n - 1) THEN v - Pow2(n) ELSE v

-----------------------------------------------------------------------------
(* The memory map (cpu.rs).                                                *)

KIB == 1024
VTTY_COLS == 80
VTTY_ROWS == 24
VTTY_BYTES == VTTY_COLS * VTTY_ROWS
ROM_SIZE == 4 * KIB
USER_MEM_SIZE == 54 * KIB
KERNEL_MEM_SIZE == 4 * KIB
MMIO_SIZE == 2 * KIB
MMIO_START == 0
MMIO_END == MMIO_START + MMIO_SIZE - 1
ROM_START == MMIO_SIZE
ROM_END == ROM_START + ROM_SIZE - 1
USER_START == ROM_START + ROM_SIZE
USER_END == USER_START + USER_MEM_SIZE - 1
KERNEL_START == USER_START + USER_MEM_SIZE
VTTY_START == 128
VTTY_END == VTTY_START + VTTY_BYTES - 1
STACK_INIT == USER_END - 1

\* A MemBlock<N> is an array of N bytes.  It is kept as the function from
\* the offsets that hold a non-zero byte to that byte; every other offset
\* below N holds 0.
new_zeroed == [o \in {} |-> 0]

BlockSize(seg) ==
    CASE seg = "vtty" -> VTTY_BYTES
      [] seg = "rom" -> ROM_SIZE
      [] seg = "user" -> USER_MEM_SIZE
      [] seg = "kernel" -> KERNEL_MEM_SIZE

ByteAt(block, off) == IF off \in DOMAIN block THEN block[off] ELSE 0

SetByte(block, off, value) ==
    [o \in (DOMAIN block \ {off}) \cup (IF value = 0 THEN {} ELSE {off}) |->
        IF o = off THEN value ELSE block[o]]

\* from_vec: the bytes of the vector at offsets 0.., zeros after them.
from_vec(vec) ==
    [o \in {i - 1 : i \in {j \in 1..Len(vec) : vec[j] # 0}} |-> vec[o + 1]]

\* impl MemRw for MemBlock<N>.  An index outside the array panics: ok = FALSE.
BlockReadU8(block, n, addr) ==
    [ok |-> addr < n, v |-> ByteAt(block, addr)]

BlockWriteU8(block, n, addr, value) ==
    [ok |-> addr < n, b |-> IF addr < n THEN SetByte(block, addr, value) ELSE block]

BlockReadS16(block, n, addr) ==
    [ok |-> addr + 1 < n,
     v |-> (ByteAt(block, addr) * 256) + ByteAt(block, addr + 1)]

\* write_s16 with the two bytes in little-endian order.
BlockWriteS16_le(block, n, addr, value) ==
    IF addr + 1 < n
    THEN [ok |-> TRUE,
          b |-> SetByte(SetByte(block, addr + 1, value \div 256), addr, value % 256)]
    ELSE [ok |-> FALSE, b |-> block]

\* write_s16 stores the low byte at addr + 1 first, so an out-of-range
\* addr + 1 panics before any byte is written.
BlockWriteS16(block, n, addr, value) ==
    IF addr + 1 < n
    THEN [ok |-> TRUE,
          b |-> SetByte(SetByte(block, addr + 1, value % 256), addr, value \div 256)]
    ELSE [ok |-> FALSE, b |-> block]

\* Memory::effective_addr / effective_addr_mut.
effective_addr(addr) ==
    CASE addr \in MMIO_START..MMIO_END -> [seg |-> "mmio", addr |-> addr]
      [] addr \in ROM_START..ROM_END -> [seg |-> "rom", addr |-> addr - ROM_START]
      [] addr \in USER_START..USER_END -> [seg |-> "user", addr |-> addr - USER_START]
      [] addr >= KERNEL_START -> [seg |-> "kernel", addr |-> addr - KERNEL_START]

\* impl MemRw for Mmio.  unimplemented!() panics: ok = FALSE.
MmioReadU8(m, addr) ==
    IF addr \in VTTY_START..VTTY_END
    THEN BlockReadU8(m.vtty, VTTY_BYTES, addr - VTTY_START)
    ELSE [ok |-> FALSE, v |-> 0]

MmioWriteU8(m, addr, value) ==
    CASE addr = 1 -> [ok |-> TRUE, m |-> m]
      [] addr \in VTTY_START..VTTY_END ->
            LET w == BlockWriteU8(m.vtty, VTTY_BYTES, addr - VTTY_START, value)
            IN  [ok |-> w.ok, m |-> [m EXCEPT !.vtty = w.b]]
      [] OTHER -> [ok |-> FALSE, m |-> m]

MmioReadS16(m, addr) == [ok |-> FALSE, v |-> 0]

\* The low byte goes to addr, the high byte to addr + 1; the second store
\* panics when addr is the last byte of the buffer, after the first was done.
MmioWriteS16(m, addr, value) ==
    CASE addr = 1 -> [ok |-> TRUE, m |-> m]
      [] addr \in VTTY_START..VTTY_END ->
            LET a == addr - VTTY_START
                w1 == BlockWriteU8(m.vtty, VTTY_BYTES, a + 0, value % 256)
                w2 == BlockWriteU8(w1.b, VTTY_BYTES, a + 1, value \div 256)
            IN  [ok |-> w1.ok /\ w2.ok, m |-> [m EXCEPT !.vtty = w2.b]]
      [] OTHER -> [ok |-> FALSE, m |-> m]

\* impl MemRw for Memory.
read_u8(m, addr) ==
    LET e == effective_addr(addr)
    IN  IF e.seg = "mmio" THEN MmioReadU8(m, e.addr)
        ELSE BlockReadU8(m[e.seg], BlockSize(e.seg), e.addr)

write_u8(m, addr, value) ==
    LET e == effective_addr(addr)
    IN  IF e.seg = "mmio" THEN MmioWriteU8(m, e.addr, value)
        ELSE LET w == BlockWriteU8(m[e.seg], BlockSize(e.seg), e.addr, value)
             IN  [ok |-> w.ok, m |-> [m EXCEPT ![e.seg] = w.b]]

read_s16(m, addr) ==
    LET e == effective_addr(addr)
    IN  IF e.seg = "mmio" THEN MmioReadS16(m, e.addr)
        ELSE BlockReadS16(m[e.seg], BlockSize(e.seg), e.addr)

write_s16(m, addr, value) ==
    LET e == effective_addr(addr)
    IN  IF e.seg = "mmio" THEN MmioWriteS16(m, e.addr, value)
        ELSE LET w == BlockWriteS16(m[e.seg], BlockSize(e.seg), e.addr, value)
             IN  [ok |-> w.ok, m |-> [m EXCEPT ![e.seg] = w.b]]

\* compute_offset with a wrapping 16-bit sum.
compute_offset_wrapping(addr_base, addr_offset) ==
    [ok |-> TRUE, addr |-> U16(addr_base + addr_offset)]

\* Memory::compute_offset: base + offset in 32 bits, then try_into u16.
compute_offset(addr_base, addr_offset) ==
    LET sum == addr_base + addr_offset
    IN  [ok |-> sum \in 0..65535, addr |-> IF sum \in 0..65535 THEN sum ELSE 0]

\* Cpu::mem_read_s16 / mem_read_u8 / mem_write_s16 / mem_write_u8.
mem_read_s16(m, addr_base, addr_offset) ==
    LET a == compute_offset(addr_base, addr_offset)
    IN  IF a.ok THEN read_s16(m, a.addr) ELSE [ok |-> FALSE, v |-> 0]

mem_read_u8(m, addr_base, addr_offset) ==
    LET a == compute_offset(addr_base, addr_offset)
    IN  IF a.ok THEN read_u8(m, a.addr) ELSE [ok |-> FALSE, v |-> 0]

mem_write_s16(m, addr_base, addr_offset, value) ==
    LET a == compute_offset(addr_base, addr_offset)
    IN  IF a.ok THEN write_s16(m, a.addr, value) ELSE [ok |-> FALSE, m |-> m]

mem_write_u8(m, addr_base, addr_offset, value) ==
    LET a == compute_offset(addr_base, addr_offset)
    IN  IF a.ok THEN write_u8(m, a.addr, value) ELSE [ok |-> FALSE, m |-> m]

-----------------------------------------------------------------------------
(* The register file (cpu/regs.rs).                                        *)

Zero == 0
Rv == 1
Ra == 2
A0 == 3
A1 == 4
A2 == 5
S0 == 6
S1 == 7
S2 == 8
T0 == 9
T1 == 10
T2 == 11
K0 == 12
K1 == 13
Gp == 14
Sp == 15

None == -1

\* reg_offset without the checked_sub: zero shares the cell of rv.
reg_offset_unchecked(reg) == IF reg >= 1 THEN reg - 1 ELSE 0

\* checked_sub(1): None for the zero register.
reg_offset(reg) == IF reg >= 1 THEN reg - 1 ELSE None

RegGet(ix, rd) ==
    IF reg_offset(rd) # None THEN ix[reg_offset(rd)] ELSE 0

RegSet(ix, rd, value) ==
    IF reg_offset(rd) # None THEN [ix EXCEPT ![reg_offset(rd)] = value] ELSE ix

\* A reset that zeroes sp with the other registers.
RegReset_zero_sp(start_sp) == [i \in 0..14 |-> 0]

\* RegisterFile::reset, which RegisterFile::new calls on a zeroed array.
RegReset(start_sp) == RegSet([i \in 0..14 |-> 0], Sp, start_sp)

-----------------------------------------------------------------------------
(* The instruction model (cpu/instr.rs) and the decoder (cpu/decode.rs).   *)

\* The numeric opcode assignments.
opcodes ==
    [EXN |-> 0, HALT |-> 1, NOP |-> 2, J |-> 8, JR |-> 9, JAL |-> 10,
     JRAL |-> 11, BT |-> 12, KRET |-> 13, KCALL |-> 14, BF |-> 15, LI |-> 16,
     LW |-> 17, LBS |-> 18, LBU |-> 19, MV |-> 20, SW |-> 21, SB |-> 22,
     INRE |-> 28, INRD |-> 29,
     ADD |-> 32, SUB |-> 33, MUL |-> 34, DIV |-> 35, OR |-> 36, XOR |-> 37,
     AND |-> 38, NOT |-> 39, ADDI |-> 40, SUBI |-> 41, MVLO |-> 42,
     MVHI |-> 43, ORI |-> 44, XORI |-> 45, ANDI |-> 46, NEG |-> 47,
     ADDU |-> 48, SUBU |-> 49, MULU |-> 50, DIVU |-> 51, SHL |-> 52,
     SHR |-> 53, SHRA |-> 54, SEB |-> 55, TLT |-> 56, TGE |-> 57, TEQ |-> 58,
     TNE |-> 59, TLTU |-> 60, TGEU |-> 61, TEZ |-> 62, TNZ |-> 63]

\* The opcode enumerations, one per encoding shape.
OpcodeOp == {"HALT", "NOP", "KRET", "INRE", "INRD"}
OpcodeAddr == {"J"}
OpcodeImm == {"EXN", "KCALL"}
OpcodeReg == {"JR", "MVLO", "MVHI"}
OpcodeRegImm == {"JAL", "BT", "BF", "LI"}
OpcodeRegReg == {"JRAL", "MV", "MUL", "DIV", "NOT", "NEG", "MULU", "DIVU",
                 "SEB", "TEZ", "TNZ"}
OpcodeRegRegReg == {"ADD", "SUB", "OR", "XOR", "AND", "ADDU", "SUBU", "SHL",
                    "SHR", "SHRA", "TLT", "TGE", "TEQ", "TNE", "TLTU", "TGEU"}
OpcodeRegRegImm == {"LW", "LBS", "LBU", "SW", "SB", "ADDI", "SUBI", "ORI",
                    "XORI", "ANDI"}

\* TryFromPrimitive that looks at the low five bits only.
try_from_low5(enum, opcode) == {name \in enum : opcodes[name] % 32 = opcode % 32}

\* TryFromPrimitive: the member of the enumeration with this number, if any.
try_from(enum, opcode) == {name \in enum : opcodes[name] = opcode}

OPCODE_BITS == 6
REG_BITS == 4
ADDR_BITS == 16
IMM10_BITS == 10
IMM16_BITS == 16

\* ceil_div that rounds down.
ceil_div_floor(a, b) == a \div b

ceil_div(a, b) == (a + b - 1) \div b

instr_size(arg_bits) == ceil_div(OPCODE_BITS + arg_bits, 8)

\* An Instr value.  The fields a shape does not carry are 0; an immediate
\* is kept as the 16-bit pattern of the s16 it is converted into.
MkInstr(shape, opcode, reg1, reg2, reg3, imm) ==
    [shape |-> shape, opcode |-> opcode, reg1 |-> reg1, reg2 |-> reg2,
     reg3 |-> reg3, imm |-> imm]

NoInstr == MkInstr("none", "none", 0, 0, 0, 0)

\* Bits i .. i+n-1 of the operand part of the word, counted from its most
\* significant end as the Msb0 view does; the operand part follows the
\* six opcode bits.
ArgBits(bits, i, n) == Field32(bits, 32 - OPCODE_BITS - i - n, n)

\* Instr::from_bits.  A register field has four bits, so the conversion to
\* Reg cannot fail and the only error is Opcode(value).
from_bits(bits) ==
    LET opcode == Field32(bits, 32 - OPCODE_BITS, OPCODE_BITS)
        Name(enum) == CHOOSE name \in try_from(enum, opcode) : TRUE
        r1 == ArgBits(bits, 0, REG_BITS)
        r2 == ArgBits(bits, 4, REG_BITS)
        r3 == ArgBits(bits, 8, REG_BITS)
        Ok(i) == [ok |-> TRUE, err |-> 0, instr |-> i]
    IN  CASE try_from(OpcodeOp, opcode) # {} ->
                Ok(MkInstr("O", Name(OpcodeOp), 0, 0, 0, 0))
          [] try_from(OpcodeAddr, opcode) # {} ->
                Ok(MkInstr("A", Name(OpcodeAddr), 0, 0, 0,
                           U16(SignExtend(ArgBits(bits, 0, ADDR_BITS), 16))))
          [] try_from(OpcodeImm, opcode) # {} ->
                Ok(MkInstr("I", Name(OpcodeImm), 0, 0, 0,
                           ArgBits(bits, 0, IMM10_BITS)))
          [] try_from(OpcodeReg, opcode) # {} ->
                Ok(MkInstr("R", Name(OpcodeReg), r1, 0, 0, 0))
          [] try_from(OpcodeRegImm, opcode) # {} ->
                Ok(MkInstr("RI", Name(OpcodeRegImm), r1, 0, 0,
                           U16(SignExtend(ArgBits(bits, REG_BITS, IMM16_BITS), 16))))
          [] try_from(OpcodeRegReg, opcode) # {} ->
                Ok(MkInstr("RR", Name(OpcodeRegReg), r1, r2, 0, 0))
          [] try_from(OpcodeRegRegReg, opcode) # {} ->
                Ok(MkInstr("RRR", Name(OpcodeRegRegReg), r1, r2, r3, 0))
          [] try_from(OpcodeRegRegImm, opcode) # {} ->
                Ok(MkInstr("RRI", Name(OpcodeRegRegImm), r1, r2, 0,
                           U16(SignExtend(ArgBits(bits, 8, IMM10_BITS), 10))))
          [] OTHER -> [ok |-> FALSE, err |-> opcode, instr |-> NoInstr]

\* Instr::instr_size with the 10-bit immediate in the RI arm.
InstrSize_imm10(i) ==
    CASE i.shape = "O" -> instr_size(0)
      [] i.shape = "A" -> instr_size(ADDR_BITS)
      [] i.shape = "I" -> instr_size(IMM10_BITS)
      [] i.shape = "R" -> instr_size(REG_BITS)
      [] i.shape = "RI" -> instr_size(REG_BITS + IMM10_BITS)
      [] i.shape = "RR" -> instr_size(2 * REG_BITS)
      [] i.shape = "RRR" -> instr_size(3 * REG_BITS)
      [] i.shape = "RRI" -> instr_size(2 * REG_BITS + IMM10_BITS)
      [] OTHER -> 0

\* Instr::instr_size.
InstrSize(i) ==
    CASE i.shape = "O" -> instr_size(0)
      [] i.shape = "A" -> instr_size(ADDR_BITS)
      [] i.shape = "I" -> instr_size(IMM10_BITS)
      [] i.shape = "R" -> instr_size(REG_BITS)
      [] i.shape = "RI" -> instr_size(REG_BITS + IMM16_BITS)
      [] i.shape = "RR" -> instr_size(2 * REG_BITS)
      [] i.shape = "RRR" -> instr_size(3 * REG_BITS)
      [] i.shape = "RRI" -> instr_size(2 * REG_BITS + IMM10_BITS)
      [] OTHER -> 0

\* The match arms of decode_and_execute that are unimplemented!().
Unimplemented == {"KCALL", "DIV", "DIVU", "OR", "XOR", "AND", "LBS", "ORI",
                  "XORI", "ANDI"}

-----------------------------------------------------------------------------
(* Signals on the outbound channel (cpu.rs, enum Signal / enum LogMsg).    *)

Sig(kind, msg, name, data) ==
    [kind |-> kind, msg |-> msg, name |-> name, data |-> data]

Halt == Sig("Halt", "", "", << >>)
Breakpoint == Sig("Breakpoint", "", "", << >>)
IllegalInstr == Sig("IllegalInstr", "", "", << >>)
LogInstr(name, size) == Sig("Log", "Instr", name, <<size>>)
LogError(opcode) == Sig("Log", "Error", "", <<opcode>>)
LogDebugPuts(addr, value) == Sig("Log", "DebugPuts", "", <<addr>> \o value)

-----------------------------------------------------------------------------
(* The exception handler (cpu/exn_codes.rs).                               *)

ILLEGAL_INSTR == 0
DEBUG_BREAKPOINT == 1
DIV_BY_ZERO == 2
DEBUG_PUTS == 3

\* handle_exn that signals IllegalInstr for every code it knows.
handle_exn_illegal(s, code) ==
    [ok |-> code \in {0, 1}, sigs |-> IF code \in {0, 1} THEN <<IllegalInstr>> ELSE << >>]

\* Cpu::handle_exn.  It takes &self: it sends signals and changes nothing.
\* The length of DEBUG_PUTS is the i16 that mem_read_u8 takes as its offset,
\* so a length of 0x8000 or more is an empty range.
handle_exn(s, code) ==
    CASE code = ILLEGAL_INSTR -> [ok |-> TRUE, sigs |-> <<IllegalInstr>>]
      [] code = DEBUG_BREAKPOINT -> [ok |-> TRUE, sigs |-> <<Breakpoint>>]
      [] code = DIV_BY_ZERO -> [ok |-> FALSE, sigs |-> << >>]
      [] code = DEBUG_PUTS ->
            LET s_ptr == RegGet(s.indexed, A0)
                s_len == as_i16(RegGet(s.indexed, A1))
                n == IF s_len > 0 THEN s_len ELSE 0
                rd == [i \in 1..n |-> mem_read_u8(s.mem, s_ptr, i - 1)]
            IN  IF \A i \in 1..n : rd[i].ok
                THEN [ok |-> TRUE,
                      sigs |-> <<LogDebugPuts(s_ptr, [i \in 1..n |-> rd[i].v])>>]
                ELSE [ok |-> FALSE, sigs |-> << >>]
      [] OTHER -> [ok |-> FALSE, sigs |-> << >>]

-----------------------------------------------------------------------------
(* The execution engine (cpu/dex.rs).                                      *)

\* u16 + u16: panics on overflow when the checks are compiled in, wraps
\* otherwise.
AddU16(a, b, oc) == [ok |-> ~(oc /\ a + b > 65535), v |-> U16(a + b)]

\* The shift count of u16 << u16 and its like: a count of 16 or more panics
\* when the checks are compiled in and is taken modulo 16 otherwise.
ShiftCount(b, oc) == [ok |-> ~(oc /\ b >= 16), v |-> b % 16]

\* Addition that sticks at i16::MAX instead of wrapping.
wrapping_add_saturating(a, b) == IF a + b > 32767 THEN 32767 ELSE U16(a + b)

\* i16::wrapping_add and u16::wrapping_add: both leave the low sixteen
\* bits of the sum.
wrapping_add(a, b) == U16(a + b)

\* i16::wrapping_sub and u16::wrapping_sub.
wrapping_sub(a, b) == U16(a - b)

\* A truth value written as all ones, as a bitwise NOT of 0 would be.
Bool_allones(b) == IF b THEN 65535 ELSE 0

\* `value as u16` of a bool: true is 1 and false is 0.
Bool(b) == IF b THEN 1 ELSE 0

\* The result of a match arm: the state it leaves, whether it returned
\* (ok) or panicked, and the signals it sent.
Ret(t, ok, sigs) == [ok |-> ok, s |-> t, sigs |-> sigs]

\* HALT that steps over itself as NOP does.
ExecHALT_advance(s) == Ret([s EXCEPT !.pc = U16(s.pc + 1)], TRUE, <<Halt>>)

\* HALT that also disables interrupts.
ExecHALT_disable(s) == Ret([s EXCEPT !.ie = FALSE], TRUE, <<Halt>>)

\* OpcodeOp::HALT: the Halt signal, and pc is left alone.
ExecHALT(s) == Ret(s, TRUE, <<Halt>>)

\* KRET that steps over itself after the return.
ExecKRET_advance(s) ==
    Ret([s EXCEPT !.ie = TRUE, !.pc = U16(RegGet(s.indexed, K0) + 1)], TRUE, << >>)

\* OpcodeOp::KRET: interrupts are enabled again and pc is restored from k0.
ExecKRET(s) == Ret([s EXCEPT !.ie = TRUE, !.pc = RegGet(s.indexed, K0)], TRUE, << >>)

\* The part of the CPU an instruction can change.
CpuState(ix, p, h, l, m, ie) ==
    [indexed |-> ix, pc |-> p, hi |-> h, lo |-> l, mem |-> m, ie |-> ie]

\* The match on `instr` in decode_and_execute, after the log and the
\* debugger prompt: the state the arm leaves, whether it returned (ok) or
\* panicked, and the signals it sent.
Exec(s, i, size, oc) ==
    LET \* self.pc += inc, last statement of most arms
        Adv(t, inc, sigs) ==
            LET a == AddU16(t.pc, inc, oc)
            IN  IF a.ok THEN Ret([t EXCEPT !.pc = a.v], TRUE, sigs)
                ELSE Ret(t, FALSE, sigs)
        Get(r) == RegGet(s.indexed, r)
        \* self.regs.set(rd, v); self.pc += size
        SetAdv(rd, v) == Adv([s EXCEPT !.indexed = RegSet(s.indexed, rd, v)], size, << >>)
        op == i.opcode
        simm == as_i16(i.imm)
    IN  CASE op = "HALT" -> ExecHALT(s)
          [] op = "NOP" -> Adv(s, 1, << >>)
          [] op = "KRET" -> ExecKRET(s)
          [] op = "INRE" -> Adv([s EXCEPT !.ie = TRUE], 1, << >>)
          [] op = "INRD" -> Adv([s EXCEPT !.ie = FALSE], 1, << >>)
          [] op = "J" -> Ret([s EXCEPT !.pc = U16(s.pc + simm)], TRUE, << >>)
          [] op = "EXN" ->
                LET h == handle_exn(s, i.imm)
                IN  IF h.ok THEN Adv(s, size, h.sigs) ELSE Ret(s, FALSE, h.sigs)
          [] op = "JR" -> Ret([s EXCEPT !.pc = Get(i.reg1)], TRUE, << >>)
          [] op = "MVLO" -> SetAdv(i.reg1, s.lo)
          [] op = "MVHI" -> SetAdv(i.reg1, s.hi)
          [] op = "JAL" ->
                LET link == AddU16(s.pc, size, oc)
                IN  IF link.ok
                    THEN Ret([s EXCEPT !.indexed = RegSet(s.indexed, i.reg1, link.v),
                                       !.pc = U16(s.pc + simm)], TRUE, << >>)
                    ELSE Ret(s, FALSE, << >>)
          [] op = "BT" ->
                IF as_bool(Get(i.reg1))
                THEN Ret([s EXCEPT !.pc = U16(s.pc + simm)], TRUE, << >>)
                ELSE Adv(s, size, << >>)
          [] op = "BF" ->
                IF ~as_bool(Get(i.reg1))
                THEN Ret([s EXCEPT !.pc = U16(s.pc + simm)], TRUE, << >>)
                ELSE Adv(s, size, << >>)
          [] op = "LI" -> SetAdv(i.reg1, i.imm)
          [] op = "JRAL" ->
                LET link == AddU16(s.pc, size, oc)
                    ix == RegSet(s.indexed, i.reg1, link.v)
                IN  IF link.ok
                    THEN Ret([s EXCEPT !.indexed = ix, !.pc = RegGet(ix, i.reg2)],
                             TRUE, << >>)
                    ELSE Ret(s, FALSE, << >>)
          [] op = "MV" -> SetAdv(i.reg1, Get(i.reg2))
          [] op = "MUL" ->
                LET product == MulI32(as_i16(Get(i.reg1)), as_i16(Get(i.reg2)))
                IN  Adv([s EXCEPT !.lo = product[2], !.hi = product[1]],
                        size, << >>)
          [] op = "MULU" ->
                LET product == MulU32(Get(i.reg1), Get(i.reg2))
                IN  Adv([s EXCEPT !.lo = product[2], !.hi = product[1]],
                        size, << >>)
          [] op = "NOT" -> SetAdv(i.reg1, Bool(~as_bool(Get(i.reg2))))
          [] op = "NEG" ->
                IF oc /\ as_i16(Get(i.reg2)) = -32768
                THEN Ret(s, FALSE, << >>)
                ELSE SetAdv(i.reg1, U16(0 - as_i16(Get(i.reg2))))
          [] op = "SEB" -> SetAdv(i.reg1, U16(SignExtend(Get(i.reg2) % 256, 8)))
          [] op = "TEZ" -> SetAdv(i.reg1, Bool(Get(i.reg2) = 0))
          [] op = "TNZ" -> SetAdv(i.reg1, Bool(Get(i.reg2) # 0))
          [] op = "ADD" -> SetAdv(i.reg1, wrapping_add(as_i16(Get(i.reg2)), as_i16(Get(i.reg3))))
          [] op = "ADDU" -> SetAdv(i.reg1, wrapping_add(Get(i.reg2), Get(i.reg3)))
          [] op = "SUB" -> SetAdv(i.reg1, wrapping_sub(as_i16(Get(i.reg2)), as_i16(Get(i.reg3))))
          [] op = "SUBU" -> SetAdv(i.reg1, wrapping_sub(Get(i.reg2), Get(i.reg3)))
          [] op = "SHL" ->
                LET c == ShiftCount(Get(i.reg3), oc)
                IN  IF c.ok THEN SetAdv(i.reg1, U16(Get(i.reg2) * Pow2(c.v)))
                    ELSE Ret(s, FALSE, << >>)
          [] op = "SHR" ->
                LET c == ShiftCount(Get(i.reg3), oc)
                IN  IF c.ok THEN SetAdv(i.reg1, Get(i.reg2) \div Pow2(c.v))
                    ELSE Ret(s, FALSE, << >>)
          [] op = "SHRA" ->
                LET c == ShiftCount(Get(i.reg3), oc)
                IN  IF c.ok THEN SetAdv(i.reg1, U16(as_i16(Get(i.reg2)) \div Pow2(c.v)))
                    ELSE Ret(s, FALSE, << >>)
          [] op = "TLT" -> SetAdv(i.reg1, Bool(as_i16(Get(i.reg2)) < as_i16(Get(i.reg3))))
          [] op = "TLTU" -> SetAdv(i.reg1, Bool(Get(i.reg2) < Get(i.reg3)))
          [] op = "TGE" -> SetAdv(i.reg1, Bool(as_i16(Get(i.reg2)) >= as_i16(Get(i.reg3))))
          [] op = "TGEU" -> SetAdv(i.reg1, Bool(Get(i.reg2) >= Get(i.reg3)))
          [] op = "TEQ" -> SetAdv(i.reg1, Bool(as_i16(Get(i.reg2)) = as_i16(Get(i.reg3))))
          [] op = "TNE" -> SetAdv(i.reg1, Bool(Get(i.reg2) # Get(i.reg3)))
          [] op = "LW" ->
                LET r == mem_read_s16(s.mem, Get(i.reg2), simm)
                IN  IF r.ok THEN SetAdv(i.reg1, r.v) ELSE Ret(s, FALSE, << >>)
          [] op = "LBU" ->
                LET r == mem_read_u8(s.mem, Get(i.reg2), simm)
                IN  IF r.ok THEN SetAdv(i.reg1, r.v) ELSE Ret(s, FALSE, << >>)
          [] op = "SW" ->
                LET w == mem_write_s16(s.mem, Get(i.reg1), simm, Get(i.reg2))
                IN  IF w.ok THEN Adv([s EXCEPT !.mem = w.m], size, << >>)
                    ELSE Ret([s EXCEPT !.mem = w.m], FALSE, << >>)
          [] op = "SB" ->
                LET w == mem_write_u8(s.mem, Get(i.reg1), simm, Get(i.reg2) % 256)
                IN  IF w.ok THEN Adv([s EXCEPT !.mem = w.m], size, << >>)
                    ELSE Ret([s EXCEPT !.mem = w.m], FALSE, << >>)
          [] op = "ADDI" -> SetAdv(i.reg1, wrapping_add(as_i16(Get(i.reg2)), simm))
          [] op = "SUBI" -> SetAdv(i.reg1, wrapping_sub(as_i16(Get(i.reg2)), simm))
          [] OTHER -> Ret(s, FALSE, << >>)

-----------------------------------------------------------------------------
(* Interrupts (cpu/interrupts.rs).                                         *)

ILL_INSTR == 65534
DIV_ZERO == 65532
KEY_EVENT == 65530
TIMER_EXP == 65528

Interrupt == {ILL_INSTR, DIV_ZERO, KEY_EVENT, TIMER_EXP}

\* send_interrupt that saves pc after the jump.
send_interrupt_late(s, interrupt) ==
    LET handler_address == read_s16(s.mem, interrupt).v
    IN  [s EXCEPT !.ie = FALSE, !.pc = handler_address,
                  !.indexed = RegSet(s.indexed, K0, handler_address)]

\* send_interrupt that saves the address after the interrupted byte.
send_interrupt_next(s, interrupt) ==
    LET saved == [s EXCEPT !.ie = FALSE, !.indexed = RegSet(s.indexed, K0, U16(s.pc + 1))]
    IN  [saved EXCEPT !.pc = read_s16(saved.mem, interrupt).v]

\* send_interrupt that leaves interrupts enabled.
send_interrupt_reentrant(s, interrupt) ==
    LET saved == [s EXCEPT !.indexed = RegSet(s.indexed, K0, s.pc)]
    IN  [saved EXCEPT !.pc = read_s16(saved.mem, interrupt).v]

\* Cpu::send_interrupt.  The vector addresses lie inside kernel RAM, so
\* the read of the handler address cannot panic.
send_interrupt(s, interrupt) ==
    LET saved == [s EXCEPT !.ie = FALSE, !.indexed = RegSet(s.indexed, K0, s.pc)]
        handler_address == read_s16(saved.mem, interrupt).v
    IN  [saved EXCEPT !.pc = handler_address]

-----------------------------------------------------------------------------
(* The debugger (cpu/debugger.rs).                                         *)

\* DbgVal values.
ValU16(n) == [k |-> "U16", v |-> n]
ValGpr(reg) == [k |-> "Gpr", v |-> reg]
ValPc == [k |-> "Spr", v |-> 0]
ValIr == [k |-> "Spr", v |-> 1]
ValLo == [k |-> "Spr", v |-> 2]
ValHi == [k |-> "Spr", v |-> 3]
ValMem(base, offset) == [k |-> "Mem", base |-> base, offset |-> offset]
ValNeg(val) == [k |-> "Neg", val |-> val]

\* Cpu::eval_dbg_val_rvalue.  Evaluating ir is unreachable!(), a read of
\* memory can panic: ok = FALSE.
RECURSIVE eval_dbg_val_rvalue(_, _)
eval_dbg_val_rvalue(s, val) ==
    CASE val.k = "U16" -> [ok |-> TRUE, v |-> val.v]
      [] val.k = "Gpr" -> [ok |-> TRUE, v |-> RegGet(s.indexed, val.v)]
      [] val.k = "Spr" ->
            CASE val = ValPc -> [ok |-> TRUE, v |-> s.pc]
              [] val = ValLo -> [ok |-> TRUE, v |-> s.lo]
              [] val = ValHi -> [ok |-> TRUE, v |-> s.hi]
              [] OTHER -> [ok |-> FALSE, v |-> 0]
      [] val.k = "Mem" ->
            LET base == eval_dbg_val_rvalue(s, val.base)
                offset == eval_dbg_val_rvalue(s, val.offset)
            IN  IF base.ok /\ offset.ok
                THEN mem_read_s16(s.mem, base.v, as_i16(offset.v))
                ELSE [ok |-> FALSE, v |-> 0]
      [] val.k = "Neg" ->
            LET r == eval_dbg_val_rvalue(s, val.val)
            IN  [ok |-> r.ok, v |-> U16(0 - r.v)]

\* Cpu::set_lvalue: the state after the write and the previous value.
set_lvalue(s, lhs, rhs) ==
    CASE lhs.k = "Gpr" ->
            [ok |-> TRUE, prev |-> RegGet(s.indexed, lhs.v),
             s |-> [s EXCEPT !.indexed = RegSet(s.indexed, lhs.v, rhs)]]
      [] lhs.k = "Spr" ->
            CASE lhs = ValPc -> [ok |-> TRUE, prev |-> s.pc, s |-> [s EXCEPT !.pc = rhs]]
              [] lhs = ValLo -> [ok |-> TRUE, prev |-> s.lo, s |-> [s EXCEPT !.lo = rhs]]
              [] lhs = ValHi -> [ok |-> TRUE, prev |-> s.hi, s |-> [s EXCEPT !.hi = rhs]]
              [] OTHER -> [ok |-> FALSE, prev |-> 0, s |-> s]
      [] lhs.k = "Mem" ->
            LET base == eval_dbg_val_rvalue(s, lhs.base)
                offset == eval_dbg_val_rvalue(s, lhs.offset)
                prev == IF base.ok /\ offset.ok
                        THEN mem_read_s16(s.mem, base.v, as_i16(offset.v))
                        ELSE [ok |-> FALSE, v |-> 0]
                w == IF prev.ok
                     THEN mem_write_s16(s.mem, base.v, as_i16(offset.v), rhs)
                     ELSE [ok |-> FALSE, m |-> s.mem]
            IN  [ok |-> w.ok, prev |-> prev.v, s |-> [s EXCEPT !.mem = w.m]]
      [] OTHER -> [ok |-> FALSE, prev |-> 0, s |-> s]

\* A Set that writes back the value the left side already holds.
eval_dbg_cmd_Set_prev(s, lhs, rhs) ==
    LET v == eval_dbg_val_rvalue(s, rhs)
    IN  IF v.ok THEN set_lvalue(s, lhs, set_lvalue(s, lhs, v.v).prev)
        ELSE [ok |-> FALSE, prev |-> 0, s |-> s]

\* Cpu::eval_dbg_cmd, DbgCmd::Set(lhs, rhs): the right side is evaluated,
\* then the left side is written; `prev` is what the command prints.
eval_dbg_cmd_Set(s, lhs, rhs) ==
    LET v == eval_dbg_val_rvalue(s, rhs)
    IN  IF v.ok THEN set_lvalue(s, lhs, v.v)
        ELSE [ok |-> FALSE, prev |-> 0, s |-> s]

\* The k-th smallest element of a set of addresses, k counted from 0
\* (BTreeSet::iter().nth(k)).
Nth(set, k) == CHOOSE a \in set : Cardinality({b \in set : b < a}) = k

\* Cpu::eval_dbg_cmd, DbgCmd::RemoveBreakpoint with the ordinal evaluated:
\* ordinal 0 is refused with a message; an ordinal beyond the set unwraps
\* the None of iter().nth(index) and panics: ok = FALSE.
eval_dbg_cmd_RemoveBreakpoint(bps, ordinal) ==
    LET index == ordinal - 1
    IN  IF index < 0 THEN [ok |-> TRUE, bps |-> bps]
        ELSE IF index >= Cardinality(bps) THEN [ok |-> FALSE, bps |-> bps]
        ELSE [ok |-> TRUE, bps |-> bps \ {Nth(bps, index)}]

-----------------------------------------------------------------------------
(* ROM images.  The assembler is not part of the machine; Asm produces the *)
(* bytes that from_bits decodes, and the images below are the inputs the   *)
(* machine is run on.                                                      *)

InstrO(opcode) == MkInstr("O", opcode, 0, 0, 0, 0)
InstrA(opcode, offset) == MkInstr("A", opcode, 0, 0, 0, U16(offset))
InstrI(opcode, imm10) == MkInstr("I", opcode, 0, 0, 0, imm10)
InstrR(opcode, reg) == MkInstr("R", opcode, reg, 0, 0, 0)
InstrRI(opcode, reg, imm) == MkInstr("RI", opcode, reg, 0, 0, U16(imm))
InstrRR(opcode, reg1, reg2) == MkInstr("RR", opcode, reg1, reg2, 0, 0)
InstrRRR(opcode, reg1, reg2, reg3) == MkInstr("RRR", opcode, reg1, reg2, reg3, 0)
InstrRRI(opcode, reg1, reg2, imm10) == MkInstr("RRI", opcode, reg1, reg2, 0, U16(imm10))

Asm(i) ==
    LET args == CASE i.shape = "O" -> 0
                  [] i.shape = "A" -> i.imm * Pow2(10)
                  [] i.shape = "I" -> (i.imm % 1024) * Pow2(16)
                  [] i.shape = "R" -> i.reg1 * Pow2(22)
                  [] i.shape = "RI" -> i.reg1 * Pow2(22) + i.imm * Pow2(6)
                  [] i.shape = "RR" -> i.reg1 * Pow2(22) + i.reg2 * Pow2(18)
                  [] i.shape = "RRR" ->
                        i.reg1 * Pow2(22) + i.reg2 * Pow2(18) + i.reg3 * Pow2(14)
                  [] i.shape = "RRI" ->
                        i.reg1 * Pow2(22) + i.reg2 * Pow2(18) + (i.imm % 1024) * Pow2(8)
        bits == Word32(opcodes[i.opcode] * Pow2(10) + args \div 65536, args % 65536)
    IN  [k \in 1..InstrSize(i) |-> Field32(bits, 32 - 8 * k, 8)]

RECURSIVE AsmAll(_)
AsmAll(prog) == IF prog = << >> THEN << >> ELSE Asm(Head(prog)) \o AsmAll(Tail(prog))

\* The image with `first` at its start and `second` at offset `at`.
Place(first, at, second) ==
    first \o [k \in 1..(at - Len(first)) |-> 0] \o second

\* Values the programs load into t0 (an operand) and t1 (an address, a
\* second operand or a shift count).
Words == {4660, 32767, 32768, 0, 65535}
Addrs == {USER_START, USER_END, KERNEL_START, 65535, ROM_START, ROM_END,
          VTTY_START, VTTY_END, 0, 1, 3, 17}

\* The instruction under test: every opcode, with rv or zero as its
\* destination and t0, t1 and sp as its operands.
Menu ==
    {InstrO(op) : op \in OpcodeOp}
    \cup {InstrA("J", off) : off \in {3, -8, -32768}}
    \cup {InstrI("EXN", code) : code \in {0, 1, 2, 3, 5}}
    \cup {InstrI("KCALL", 0)}
    \cup {InstrR(op, r) : op \in {"MVLO", "MVHI"}, r \in {Rv, Zero}}
    \cup {InstrR("JR", T1)}
    \cup {InstrRI(op, r, off) : op \in {"JAL", "LI"}, r \in {Ra, Zero}, off \in {5, -9}}
    \cup {InstrRI(op, T0, off) : op \in {"BT", "BF"}, off \in {4, -32768}}
    \cup {InstrRI("JAL", Ra, -32768)}
    \cup {InstrRR(op, r, T0) : op \in OpcodeRegReg \ {"MUL", "MULU"}, r \in {Rv, Zero}}
    \cup {InstrRR("JRAL", T0, T0)}
    \cup {InstrRR(op, T0, T1) : op \in {"MUL", "MULU", "DIV", "DIVU"}}
    \cup {InstrRRR(op, r, T0, T1) : op \in OpcodeRegRegReg, r \in {Rv, Zero}}
    \cup {InstrRRI(op, r, T1, off) : op \in {"LW", "LBU", "LBS"}, r \in {Rv, Zero},
                                     off \in {0, -1}}
    \cup {InstrRRI(op, b, T0, off) : op \in {"SW", "SB"}, b \in {T1, Sp}, off \in {0, 1, -2}}
    \cup {InstrRRI(op, r, T0, imm) : op \in {"ADDI", "SUBI", "ORI", "XORI", "ANDI"},
                                     r \in {Rv, Zero}, imm \in {1, -1}}
    \cup {InstrRRI(op, Rv, T0, imm) : op \in {"ADDI", "SUBI"}, imm \in {511, -512}}

\* A byte whose opcode field (3) is not assigned.
BadOpcode == <<12>>

\* The bytes that open a word whose opcode field is not assigned, with
\* the bits after the field clear or set.
BadOpcodes ==
    {<<4 * op>> : op \in (3..7) \cup (23..27) \cup {30, 31}}
    \cup {<<4 * op + 3, 255>> : op \in {3, 27, 31}}

\* One instruction on chosen operands, read back, then HALT.
UnitRoms ==
    {AsmAll(<<InstrRI("LI", T0, w), InstrRI("LI", T1, a)>>) \o body :
        w \in Words, a \in Addrs,
        body \in {AsmAll(<<x, InstrRRI("LW", Rv, T1, 0), InstrO("HALT")>>) : x \in Menu}
                 \cup {BadOpcode} \cup BadOpcodes}

\* A main program that stores a handler address in one vector, and a
\* handler at offset HandlerAt of the ROM.
HandlerAt == 32

IrqMains ==
    {<<InstrO("NOP"), InstrO("NOP"), InstrO("HALT")>>,
     <<InstrO("INRD"), InstrO("NOP"), InstrO("INRE"), InstrO("HALT")>>,
     <<InstrO("HALT")>>}

IrqHandlers ==
    {<<InstrO("KRET")>>,
     <<InstrO("HALT")>>,
     <<InstrO("NOP"), InstrO("KRET")>>,
     <<InstrO("INRE"), InstrO("NOP"), InstrO("KRET")>>,
     <<InstrRI("LI", K0, ROM_START), InstrO("KRET")>>}

IrqRoms ==
    {Place(AsmAll(<<InstrRI("LI", T0, ROM_START + HandlerAt), InstrRI("LI", T1, vec),
                    InstrRRI("SW", T1, T0, 0)>> \o main),
           HandlerAt, AsmAll(handler)) :
        vec \in {ILL_INSTR, KEY_EVENT}, main \in IrqMains, handler \in IrqHandlers}

\* The programs run under the debugger.
DebugRoms ==
    {AsmAll(<<InstrRI("LI", T0, 4660), InstrRRI("SW", Sp, T0, -2),
              InstrRRI("LW", Rv, Sp, -2), InstrO("HALT")>>),
     AsmAll(<<InstrRI("LI", Zero, 5), InstrRRR("ADD", Rv, Zero, Zero),
              InstrO("NOP"), InstrO("HALT")>>),
     AsmAll(<<InstrRI("LI", T0, 5), InstrRRR("OR", Rv, T0, T0), InstrO("HALT")>>)}

\* An instruction whose last byte is the last byte of the ROM, reached by a
\* jump: one to four bytes long.
EdgeRoms ==
    {Place(AsmAll(<<InstrRI("LI", T1, ROM_START + ROM_SIZE - InstrSize(x)),
                    InstrR("JR", T1)>>),
           ROM_SIZE - InstrSize(x), Asm(x)) :
        x \in {InstrO("HALT"), InstrO("NOP"), InstrR("JR", T1), InstrA("J", 3),
               InstrRI("LI", Rv, 5)}}

\* DEBUG_PUTS on a chosen string: its address in a0 and its length in a1.
PutsRoms ==
    {AsmAll(<<InstrRI("LI", A0, p), InstrRI("LI", A1, n), InstrI("EXN", DEBUG_PUTS),
              InstrO("HALT")>>) :
        p \in {ROM_START, USER_END, VTTY_START, 65535}, n \in {0, 2, 32768, 65535}}

\* A run: the ROM, whether the CPU starts in debug mode (in_debug_mode(..)
\* of the builder), and how many interrupts the supervisor sends and how
\* many commands the user types.
Scenario(rom, debug, irqs, cmds) ==
    [rom |-> rom, debug |-> debug, irqs |-> irqs, cmds |-> cmds]

Scenarios ==
    {Scenario(rom, FALSE, 0, 0) : rom \in UnitRoms}
    \cup {Scenario(rom, FALSE, MaxQueue, 0) : rom \in IrqRoms}
    \cup {Scenario(rom, TRUE, 0, MaxCmds) : rom \in DebugRoms}
    \cup {Scenario(rom, FALSE, 0, 0) : rom \in EdgeRoms \cup PutsRoms}

-----------------------------------------------------------------------------
(* The machine.                                                            *)

Cur == CpuState(indexed, pc, hi, lo, mem, interrupts_enabled)

\* The engine's thread has panicked: in fetch, in an arm of
\* decode_and_execute, or in a debugger command.
Panicked == phase \in {"panic:fetch", "panic:exec", "panic:prompt"}

\* Cpu::load_rom: the ROM block is replaced.
load_rom(s, rom) == [s EXCEPT !.mem.rom = rom]

\* A reset that leaves the ROM block as it is.
reset_keep_rom(s) ==
    [cpu |-> CpuState(RegReset(STACK_INIT), ROM_START, 0, 0,
                      [s.mem EXCEPT !.user = new_zeroed, !.kernel = new_zeroed], TRUE),
     ir |-> Word32(0, 0),
     in_debug_mode |-> FALSE]

\* Cpu::reset, with Memory::reset: the registers, pc, ir, Hi/Lo and the
\* flags are as Cpu::new leaves them; ROM, user and kernel RAM are zeroed
\* and the MMIO block is left alone.  No code of the engine calls it.
reset(s) ==
    [cpu |-> CpuState(RegReset(STACK_INIT), ROM_START, 0, 0,
                      [s.mem EXCEPT !.rom = new_zeroed, !.user = new_zeroed,
                                    !.kernel = new_zeroed],
                      TRUE),
     ir |-> Word32(0, 0),
     in_debug_mode |-> FALSE]

\* Writes a CpuState back to the variables.
Becomes(t) ==
    /\ indexed' = t.indexed
    /\ pc' = t.pc
    /\ hi' = t.hi
    /\ lo' = t.lo
    /\ mem' = t.mem
    /\ interrupts_enabled' = t.ie

\* Cpu::new, with the builder's in_debug_mode(..), for one of the runs.
InitOf(runs) ==
    \E sc \in runs, oc \in BOOLEAN :
        /\ indexed = RegReset(STACK_INIT)
        /\ pc = ROM_START
        /\ ir = Word32(0, 0)
        /\ hi = 0
        /\ lo = 0
        /\ mem = [vtty |-> new_zeroed, rom |-> from_vec(sc.rom),
                  user |-> new_zeroed, kernel |-> new_zeroed]
        /\ interrupts_enabled = TRUE
        /\ in_debug_mode = sc.debug
        /\ breakpoints = {}
        /\ pending_interrupts = << >>
        /\ supervisor = << >>
        /\ phase = "poll"
        /\ instr = NoInstr
        /\ overflow_checks = oc
        /\ budget = [steps |-> MaxSteps, irqs |-> sc.irqs, cmds |-> sc.cmds]
        /\ executed = << >>
        /\ step = [n |-> 0, pc0 |-> ROM_START, irq |-> 0, dbg |-> << >>, sig0 |-> 0,
                   prev |-> NoInstr,
                   s0 |-> CpuState(RegReset(STACK_INIT), ROM_START, 0, 0,
                                   [vtty |-> new_zeroed, rom |-> from_vec(sc.rom),
                                    user |-> new_zeroed, kernel |-> new_zeroed], TRUE)]

Init == InitOf(Scenarios)

\* An interrupt check that takes nothing from the queue.
interrupt_check_never(s, q) == [s |-> s, q |-> q, irq |-> 0]

\* try_recv that hands out the newest message.
try_recv_newest(q) ==
    IF q = << >> THEN [ok |-> FALSE, v |-> 0, rest |-> q]
    ELSE [ok |-> TRUE, v |-> q[Len(q)], rest |-> SubSeq(q, 1, Len(q) - 1)]

\* Receiver::try_recv on the inbound channel: the oldest message, if any.
try_recv(q) ==
    IF q = << >> THEN [ok |-> FALSE, v |-> 0, rest |-> q]
    ELSE [ok |-> TRUE, v |-> Head(q), rest |-> Tail(q)]

\* The interrupt check without the test of interrupts_enabled.
interrupt_check_unmasked(s, q) ==
    LET r == try_recv(q)
    IN  IF r.ok
        THEN [s |-> send_interrupt(s, r.v), q |-> r.rest, irq |-> r.v]
        ELSE [s |-> s, q |-> q, irq |-> 0]

\* The interrupt check at the head of Cpu::step: the state and the queue
\* it leaves, and the interrupt it dispatched (0 for none).
interrupt_check(s, q) ==
    LET r == try_recv(q)
    IN  IF s.ie /\ r.ok
        THEN [s |-> send_interrupt(s, r.v), q |-> r.rest, irq |-> r.v]
        ELSE [s |-> s, q |-> q, irq |-> 0]

\* Cpu::step, first part: the interrupt check.
StepPoll ==
    /\ phase = "poll"
    /\ budget.steps > 0
    /\ LET c == interrupt_check(Cur, pending_interrupts)
       IN  /\ Becomes(c.s)
           /\ pending_interrupts' = c.q
           /\ step' = [n |-> step.n + 1, pc0 |-> pc, irq |-> c.irq,
                       dbg |-> << >>, sig0 |-> Len(supervisor), prev |-> instr,
                       s0 |-> Cur]
    /\ budget' = [budget EXCEPT !.steps = @ - 1]
    /\ phase' = "fetch"
    /\ UNCHANGED <<ir, in_debug_mode, breakpoints, supervisor, instr, overflow_checks, executed>>

\* Cpu::fetch: the word at pc + 2 is read first, then the word at pc.
fetch(m, p, oc) ==
    LET a == AddU16(p, 2, oc)
        l == IF a.ok THEN read_s16(m, a.v) ELSE [ok |-> FALSE, v |-> 0]
        h == IF l.ok THEN read_s16(m, p) ELSE [ok |-> FALSE, v |-> 0]
    IN  [ok |-> h.ok, ir |-> Word32(h.v, l.v)]

\* A step that looks at in_debug_mode only and not at the breakpoint set.
debug_after_fetch_flag_only(debug, p, bps) == debug

\* A step that enters debug mode whatever pc is.
debug_after_fetch_always(debug, p, bps) == TRUE

\* Cpu::step, `if self.breakpoints.contains(&self.pc)`: in_debug_mode
\* after the fetch.
debug_after_fetch(debug, p, bps) == debug \/ p \in bps

\* Cpu::step, second part: fetch, the breakpoint check, and
\* decode_and_execute up to the debugger prompt.  A decode error is
\* returned to Cpu::run, which logs it and starts the next step.
StepFetch ==
    /\ phase = "fetch"
    /\ LET f == fetch(mem, pc, overflow_checks)
           d == from_bits(f.ir)
           debug == debug_after_fetch(in_debug_mode, pc, breakpoints)
       IN  IF ~f.ok
           THEN /\ phase' = "panic:fetch"
                /\ instr' = NoInstr
                /\ UNCHANGED <<ir, in_debug_mode, supervisor>>
           ELSE /\ ir' = f.ir
                /\ in_debug_mode' = debug
                /\ IF ~d.ok
                   THEN /\ supervisor' = Append(supervisor, LogError(d.err))
                        /\ phase' = "poll"
                        /\ instr' = NoInstr
                   ELSE /\ instr' = d.instr
                        /\ IF d.instr.opcode \in Unimplemented
                           THEN /\ phase' = "panic:exec"
                                /\ UNCHANGED supervisor
                           ELSE /\ supervisor' =
                                      Append(supervisor,
                                             LogInstr(d.instr.opcode, InstrSize(d.instr)))
                                /\ phase' = IF debug THEN "prompt" ELSE "exec"
    /\ UNCHANGED <<indexed, pc, hi, lo, mem, interrupts_enabled, breakpoints,
                   pending_interrupts, overflow_checks, executed, budget, step>>

\* An engine that fetches and decodes again after the prompt, at the pc
\* the prompt left.
executing_refetched(i, s, oc) == from_bits(fetch(s.mem, s.pc, oc).ir).instr

\* The instruction an arm of decode_and_execute runs after its call of
\* breakpoint(): the one that was decoded from ir before the match.
executing(i, s, oc) == i

\* An arm of decode_and_execute after its call of breakpoint().
Execute ==
    /\ phase = "exec"
    /\ LET i == executing(instr, Cur, overflow_checks)
           r == Exec(Cur, i, InstrSize(i), overflow_checks)
       IN  /\ Becomes(r.s)
           /\ supervisor' = supervisor \o r.sigs
           /\ phase' = IF r.ok THEN "poll" ELSE "panic:exec"
           /\ executed' = IF r.ok
                           THEN Append(executed, [pc0 |-> step.pc0, irq |-> step.irq,
                                                  ie |-> step.s0.ie, at |-> pc,
                                                  instr |-> instr])
                           ELSE executed
    /\ UNCHANGED <<ir, in_debug_mode, breakpoints, pending_interrupts, instr,
                   overflow_checks, budget, step>>

\* The supervisor thread sends an interrupt on the inbound channel.
SupervisorSend ==
    /\ ~Panicked
    /\ budget.irqs > 0
    /\ \E interrupt \in Interrupt :
          pending_interrupts' = Append(pending_interrupts, interrupt)
    /\ budget' = [budget EXCEPT !.irqs = @ - 1]
    /\ UNCHANGED <<indexed, pc, ir, hi, lo, mem, interrupts_enabled, in_debug_mode,
                   breakpoints, supervisor, phase, instr, overflow_checks, executed, step>>

\* What is typed at the prompt: the left and right sides of assignments,
\* and the arguments of the breakpoint commands.
DbgLhs ==
    <<ValGpr(Zero), ValGpr(Rv), ValPc, ValHi, ValIr,
      ValMem(ValU16(ROM_START), ValU16(0)), ValMem(ValGpr(Sp), ValNeg(ValU16(2)))>>

DbgRhs == <<ValU16(5), ValGpr(Rv), ValMem(ValGpr(Sp), ValNeg(ValU16(2))), ValIr>>

DbgArgs == <<ValU16(0), ValU16(1), ValU16(ROM_START + 4), ValPc>>

\* Cpu::breakpoint, an empty line: the loop ends and the instruction runs.
DbgEmptyLine ==
    /\ phase = "prompt"
    /\ phase' = "exec"
    /\ UNCHANGED <<indexed, pc, ir, hi, lo, mem, interrupts_enabled, in_debug_mode,
                   breakpoints, pending_interrupts, supervisor, instr,
                   overflow_checks, executed, budget, step>>

\* DbgCmd::Continue.
DbgContinue ==
    /\ phase = "prompt"
    /\ in_debug_mode' = FALSE
    /\ phase' = "exec"
    /\ UNCHANGED <<indexed, pc, ir, hi, lo, mem, interrupts_enabled, breakpoints,
                   pending_interrupts, supervisor, instr, overflow_checks, executed, budget,
                   step>>

\* DbgCmd::Set(lhs, rhs).
DbgSet ==
    /\ phase = "prompt"
    /\ budget.cmds > 0
    /\ \E l \in 1..Len(DbgLhs), r \in 1..Len(DbgRhs) :
          LET w == eval_dbg_cmd_Set(Cur, DbgLhs[l], DbgRhs[r])
          IN  /\ Becomes(w.s)
              /\ phase' = IF w.ok THEN "prompt" ELSE "panic:prompt"
              /\ step' = [step EXCEPT !.dbg = Append(@, l)]
    /\ budget' = [budget EXCEPT !.cmds = @ - 1]
    /\ UNCHANGED <<ir, in_debug_mode, breakpoints, pending_interrupts, supervisor,
                   instr, overflow_checks, executed>>

\* DbgCmd::AddBreakpoint(val).
DbgAddBreakpoint ==
    /\ phase = "prompt"
    /\ budget.cmds > 0
    /\ \E i \in 1..Len(DbgArgs) :
          LET address == eval_dbg_val_rvalue(Cur, DbgArgs[i])
          IN  /\ breakpoints' = IF address.ok THEN breakpoints \cup {address.v}
                                ELSE breakpoints
              /\ phase' = IF address.ok THEN "prompt" ELSE "panic:prompt"
    /\ budget' = [budget EXCEPT !.cmds = @ - 1]
    /\ UNCHANGED <<indexed, pc, ir, hi, lo, mem, interrupts_enabled, in_debug_mode,
                   pending_interrupts, supervisor, instr, overflow_checks, executed, step>>

\* DbgCmd::RemoveBreakpoint(val): ordinal 0 is refused, an ordinal beyond
\* the set unwraps None and panics.
DbgRemoveBreakpoint ==
    /\ phase = "prompt"
    /\ budget.cmds > 0
    /\ \E i \in 1..Len(DbgArgs) :
          LET ordinal == eval_dbg_val_rvalue(Cur, DbgArgs[i])
              r == eval_dbg_cmd_RemoveBreakpoint(breakpoints, ordinal.v)
          IN  IF ~ordinal.ok THEN phase' = "panic:prompt" /\ UNCHANGED breakpoints
              ELSE /\ breakpoints' = r.bps
                   /\ phase' = IF r.ok THEN "prompt" ELSE "panic:prompt"
    /\ budget' = [budget EXCEPT !.cmds = @ - 1]
    /\ UNCHANGED <<indexed, pc, ir, hi, lo, mem, interrupts_enabled, in_debug_mode,
                   pending_interrupts, supervisor, instr, overflow_checks, executed, step>>

Next ==
    \/ StepPoll
    \/ StepFetch
    \/ Execute
    \/ SupervisorSend
    \/ DbgEmptyLine
    \/ DbgContinue
    \/ DbgSet
    \/ DbgAddBreakpoint
    \/ DbgRemoveBreakpoint

Spec == Init /\ [][Next]_vars

\* The runs with interrupts, without the debugger: the engine thread and the
\* supervisor thread.  Cpu::run loops for ever, so the engine always takes
\* its next step.
LiveInit == InitOf({Scenario(rom, FALSE, MaxQueue, 0) : rom \in IrqRoms})

LiveNext ==
    \/ StepPoll
    \/ StepFetch
    \/ Execute
    \/ SupervisorSend

\* The engine thread leaves the position it is at: the interrupt check,
\* the fetch or the execution.  In the runs of LiveNext these are exactly
\* the steps of StepPoll, StepFetch and Execute.
EngineStep ==
    \/ phase = "poll" /\ budget.steps > 0 /\ phase' = "fetch"
    \/ phase = "fetch" /\ phase' \in {"poll", "prompt", "exec", "panic:fetch", "panic:exec"}
    \/ phase = "exec" /\ phase' \in {"poll", "panic:exec"}

LiveSpec == LiveInit /\ [][LiveNext]_vars /\ WF_phase(EngineStep)

-----------------------------------------------------------------------------
(* Properties of a step.                                                   *)

\* The signals sent since the step in progress began.
SignalsOfStep == SubSeq(supervisor, step.sig0 + 1, Len(supervisor))

NumHalt(sigs) == Cardinality({k \in 1..Len(sigs) : sigs[k] = Halt})

\* The instructions whose first register operand is their destination.
WritesReg(i) ==
    i.opcode \in {"MVLO", "MVHI", "JAL", "LI", "JRAL", "MV", "NOT", "NEG", "SEB",
                  "TEZ", "TNZ", "LW", "LBU", "ADDI", "SUBI"} \cup OpcodeRegRegReg

\* The last assignment typed at the prompt of this step.
LastDbg(st) == DbgLhs[st.dbg[Len(st.dbg)]]

\* The debugger assigned to pc at the prompt of this step.
DbgAssignedPc ==
    \E k \in 1..Len(step.dbg) :
        DbgLhs[step.dbg[k]].k = "Spr" /\ DbgLhs[step.dbg[k]] = ValPc

\* User RAM and kernel RAM.
Ram == USER_START..65535

\* The address and the value of the store `instr`, which leaves the
\* registers alone.
StoreAddr == RegGet(indexed, instr.reg1) + as_i16(instr.imm)
StoreValue == RegGet(indexed, instr.reg2)

\* C1: the register zero always reads 0, and an instruction or a debugger
\* assignment whose destination is zero leaves every register as it was.
C1_ZeroRegister ==
    /\ [](RegGet(indexed, Zero) = 0)
    /\ [][(\/ phase = "exec" /\ WritesReg(instr) /\ instr.reg1 = Zero
           \/ /\ phase = "prompt"
              /\ Len(step'.dbg) > Len(step.dbg)
              /\ LastDbg(step').k = "Gpr"
              /\ LastDbg(step').v = Zero)
          => indexed' = indexed]_vars

\* LI zero, 5 has executed and zero reads 0.
C1_Witness ==
    /\ phase = "poll"
    /\ instr = InstrRI("LI", Zero, 5)
    /\ pc = step.pc0 + 4
    /\ RegGet(indexed, Zero) = 0

\* C2: a word or a byte written to any address of user or kernel RAM, the
\* last address of each segment included, is written without a failure and
\* reads back as the value written.
C2_RamRoundTrip ==
    (/\ phase \in {"poll", "panic:exec"}
     /\ instr.opcode \in {"SW", "SB"}
     /\ StoreAddr \in Ram)
    => /\ phase = "poll"
       /\ instr.opcode = "SW" =>
             read_s16(mem, StoreAddr) = [ok |-> TRUE, v |-> StoreValue]
       /\ instr.opcode = "SB" =>
             read_u8(mem, StoreAddr) = [ok |-> TRUE, v |-> StoreValue % 256]

\* C3: after SW has stored w at an address a of RAM, the byte at a is the
\* high byte of w and the byte at a + 1 the low byte, and an LW that
\* follows from the same address loads w.
C3_BigEndian ==
    /\ (phase = "poll" /\ instr.opcode = "SW" /\ StoreAddr \in Ram)
       => /\ read_u8(mem, StoreAddr) = [ok |-> TRUE, v |-> (StoreValue \div 256) % 256]
          /\ read_u8(mem, StoreAddr + 1) = [ok |-> TRUE, v |-> StoreValue % 256]
    /\ (/\ phase = "poll"
        /\ instr.opcode = "LW"
        /\ step.prev.opcode = "SW"
        /\ step.irq = 0
        /\ step.dbg = << >>
        /\ step.prev.reg1 = instr.reg2
        /\ step.prev.imm = instr.imm
        /\ instr.reg1 \notin {Zero, instr.reg2}
        /\ RegGet(indexed, instr.reg2) + as_i16(instr.imm) \in Ram)
       => RegGet(indexed, instr.reg1) = RegGet(indexed, step.prev.reg2)

\* SW has stored 0x1234 in RAM and the LW after it has loaded it.
C3_Witness ==
    /\ phase = "poll"
    /\ instr.opcode = "LW"
    /\ step.prev.opcode = "SW"
    /\ step.prev.reg1 = instr.reg2
    /\ step.prev.imm = instr.imm
    /\ RegGet(indexed, instr.reg2) + as_i16(instr.imm) \in Ram
    /\ RegGet(indexed, Rv) = 4660
    /\ read_u8(mem, RegGet(indexed, instr.reg2) + as_i16(instr.imm)).v = 18

\* C4: no step changes a byte of the ROM.
C4_RomImmutable == [][mem'.rom = mem.rom]_vars

\* HALT, KRET, the jumps, and a branch that is taken.
ControlFlow(i) ==
    \/ i.opcode \in {"HALT", "KRET", "J", "JR", "JAL", "JRAL"}
    \/ i.opcode = "BT" /\ as_bool(RegGet(indexed, i.reg1))
    \/ i.opcode = "BF" /\ ~as_bool(RegGet(indexed, i.reg1))

\* C5: a step that decodes an instruction which is not a control-flow
\* instruction, dispatches no interrupt and has no debugger assignment to
\* pc ends with pc advanced by the size of the instruction.
C5_PcAdvances ==
    (/\ phase \in {"poll", "panic:exec"}
     /\ instr # NoInstr
     /\ ~ControlFlow(instr)
     /\ step.irq = 0
     /\ ~DbgAssignedPc)
    => /\ phase = "poll"
       /\ pc = step.pc0 + InstrSize(instr)

\* The size the engine logged for `instr` before it ran it.
LoggedSize(size) == supervisor[Len(supervisor)] = LogInstr(instr.opcode, size)

\* The step has run `instr` to its end, pc was moved by neither an
\* interrupt nor the debugger, and `instr` advances pc by its size.
Advanced ==
    /\ phase = "poll"
    /\ instr # NoInstr
    /\ ~ControlFlow(instr)
    /\ step.irq = 0
    /\ ~DbgAssignedPc

\* C6, as stated: the size of an instruction depends only on its shape, and
\* is O = 1, A = 3, I = 2, R = 2, RI = 3, RR = 2, RRR = 3, RRI = 3 bytes.
C6_SizeByShape ==
    LET Size == [O |-> 1, A |-> 3, I |-> 2, R |-> 2, RI |-> 3, RR |-> 2,
                 RRR |-> 3, RRI |-> 3]
    IN  /\ phase \in {"prompt", "exec"} => LoggedSize(Size[instr.shape])
        /\ Advanced => pc = step.pc0 + Size[instr.shape]

\* C6, amended: the size of an instruction depends only on its shape, and
\* is O = 1, A = 3, I = 2, R = 2, RI = 4, RR = 2, RRR = 3, RRI = 3 bytes.
C6_SizeByShapeAmended ==
    LET Size == [O |-> 1, A |-> 3, I |-> 2, R |-> 2, RI |-> 4, RR |-> 2,
                 RRR |-> 3, RRI |-> 3]
    IN  /\ phase \in {"prompt", "exec"} => LoggedSize(Size[instr.shape])
        /\ Advanced => pc = step.pc0 + Size[instr.shape]

\* An RI instruction that is not a jump has run and pc is 4 bytes on.
C6_Witness ==
    /\ Advanced
    /\ instr.shape = "RI"
    /\ pc = step.pc0 + 4

\* C7: for every shape the size the engine uses is the number of whole
\* bytes that hold the 6 opcode bits and the operand bits of the shape:
\* 0 (O), 16 (A), 10 (I), 4 (R), 20 (RI), 8 (RR), 12 (RRR), 18 (RRI).
C7_SizeIsCeiling ==
    LET OperandBits == [O |-> 0, A |-> 16, I |-> 10, R |-> 4, RI |-> 20, RR |-> 8,
                        RRR |-> 12, RRI |-> 18]
        bits == 6 + OperandBits[instr.shape]
        bytes == CHOOSE n \in 0..4 : 8 * (n - 1) < bits /\ bits <= 8 * n
    IN  /\ phase \in {"prompt", "exec"} => LoggedSize(bytes)
        /\ Advanced => pc = step.pc0 + bytes

\* An RRI instruction, 24 bits that fill 3 bytes exactly, is about to run.
C7_Witness ==
    /\ phase = "exec"
    /\ instr.shape = "RRI"
    /\ LoggedSize(3)

\* The step in progress has run HALT to its end.
HaltStepDone == phase = "poll" /\ instr.opcode = "HALT"

\* pc, the registers, Hi/Lo and memory are as they were when the step began.
StepLeftStateAlone ==
    /\ pc = step.pc0
    /\ indexed = step.s0.indexed
    /\ hi = step.s0.hi
    /\ lo = step.s0.lo
    /\ mem = step.s0.mem

\* C8, as stated: a step that executes HALT leaves pc, the registers,
\* Hi/Lo and memory unchanged and sends exactly one Halt signal.
C8_HaltStep ==
    HaltStepDone => StepLeftStateAlone /\ NumHalt(SignalsOfStep) = 1

\* C8, amended: a step that executes HALT, dispatches no interrupt and has
\* no debugger assignment leaves pc, the registers, Hi/Lo and memory
\* unchanged and sends exactly one Halt signal.
C8_HaltStepAmended ==
    (HaltStepDone /\ step.irq = 0 /\ step.dbg = << >>)
    => StepLeftStateAlone /\ NumHalt(SignalsOfStep) = 1

\* Such a step has ended: its last signal is Halt.
C8_Witness ==
    /\ HaltStepDone
    /\ step.irq = 0
    /\ step.dbg = << >>
    /\ step.n > 1
    /\ supervisor[Len(supervisor)] = Halt

\* C9: once a Halt signal has been sent the engine is halted: it runs no
\* further instruction, pc, the registers, Hi/Lo and memory never change,
\* no interrupt is dispatched and no second Halt signal is sent.
C9_HaltedStays ==
    [][NumHalt(supervisor) > 0
       => /\ phase' \notin {"prompt", "exec"}
          /\ <<pc, indexed, hi, lo, mem>>' = <<pc, indexed, hi, lo, mem>>
          /\ Len(pending_interrupts') >= Len(pending_interrupts)
          /\ NumHalt(supervisor') = NumHalt(supervisor)]_vars

\* C10, as stated: a step that starts with interrupts enabled and an
\* interrupt pending ends with interrupts disabled, k0 the pc the step
\* began with, and pc the big-endian word at the vector of the interrupt.
C10_DispatchStep ==
    (phase = "poll" /\ step.irq # 0)
    => /\ ~interrupts_enabled
       /\ RegGet(indexed, K0) = step.pc0
       /\ pc = ByteAt(step.s0.mem.kernel, step.irq - KERNEL_START) * 256
               + ByteAt(step.s0.mem.kernel, step.irq - KERNEL_START + 1)

\* C10, amended: when a step starts with interrupts enabled and an
\* interrupt pending, then right after the dispatch, before the step
\* fetches, interrupts are disabled, k0 is the pc the step began with, and
\* pc is the big-endian word at the vector of the interrupt.
C10_DispatchAmended ==
    (phase = "fetch" /\ step.irq # 0)
    => /\ ~interrupts_enabled
       /\ RegGet(indexed, K0) = step.pc0
       /\ pc = ByteAt(step.s0.mem.kernel, step.irq - KERNEL_START) * 256
               + ByteAt(step.s0.mem.kernel, step.irq - KERNEL_START + 1)

\* ILL_INSTR has been dispatched to the handler the program installed.
C10_Witness ==
    /\ phase = "fetch"
    /\ step.irq = ILL_INSTR
    /\ step.s0.ie
    /\ pc = ROM_START + HandlerAt
    /\ step.pc0 # pc

\* C11: after a step that executes KRET and dispatches no interrupt,
\* interrupts are enabled and pc is the value k0 held when KRET executed,
\* with no increment on top.
C11_Kret ==
    (phase = "poll" /\ instr.opcode = "KRET" /\ step.irq = 0)
    => interrupts_enabled /\ pc = RegGet(indexed, K0)

\* KRET has ended a handler that ran with interrupts disabled.
C11_Witness ==
    /\ phase = "poll"
    /\ instr.opcode = "KRET"
    /\ step.irq = 0
    /\ ~step.s0.ie
    /\ interrupts_enabled
    /\ pc = RegGet(indexed, K0)
    /\ pc # step.pc0

\* executed[i] is the first instruction of a handler entered by a dispatch,
\* executed[j] is the KRET that handler reaches, and between the two
\* nothing wrote k0: no instruction with destination k0 and no further
\* dispatch.
RoundTrip(i, j) ==
    /\ i <= j
    /\ executed[i].irq # 0
    /\ executed[j].instr.opcode = "KRET"
    /\ \A k \in i..(j - 1) :
          /\ executed[k].instr.opcode # "KRET"
          /\ ~(WritesReg(executed[k].instr) /\ executed[k].instr.reg1 = K0)
    /\ \A k \in (i + 1)..j : executed[k].irq = 0

\* C12, as stated: when an interrupt is dispatched at pc == p and the
\* handler reaches KRET without writing k0, the next instruction executed
\* after KRET is the one at p, with interrupts enabled.
C12_RoundTrip ==
    \A i, j \in 1..Len(executed) :
        (RoundTrip(i, j) /\ j < Len(executed))
        => /\ executed[j + 1].ie
           /\ executed[j + 1].at = executed[i].pc0

\* C12, amended: when an interrupt is dispatched at pc == p and the
\* handler reaches KRET without writing k0, the step after KRET starts
\* with interrupts enabled and pc == p, and unless that step dispatches
\* another interrupt the instruction it executes is the one at p.
C12_RoundTripAmended ==
    \A i, j \in 1..Len(executed) :
        (RoundTrip(i, j) /\ j < Len(executed))
        => /\ executed[j + 1].ie
           /\ executed[j + 1].pc0 = executed[i].pc0
           /\ executed[j + 1].irq = 0 => executed[j + 1].at = executed[i].pc0

\* A handler of two instructions has returned and the interrupted
\* instruction has run.
C12_Witness ==
    \E i, j \in 1..Len(executed) :
        /\ RoundTrip(i, j)
        /\ i < j
        /\ j < Len(executed)
        /\ executed[j + 1].irq = 0
        /\ executed[j + 1].at = executed[i].pc0
        /\ executed[j + 1].at # executed[j].at

\* C13: while interrupts are disabled the interrupt check of a step takes
\* nothing from the queue and dispatches nothing, however many interrupts
\* are pending: the queue, k0 and the flag are as they were.
C13_Masked ==
    [][(phase = "poll" /\ ~interrupts_enabled /\ phase' = "fetch")
       => /\ pending_interrupts' = pending_interrupts
          /\ RegGet(indexed', K0) = RegGet(indexed, K0)
          /\ ~interrupts_enabled'
          /\ pc' = pc
          /\ step'.irq = 0]_vars

\* A step has begun with interrupts disabled and two interrupts pending,
\* and both are still in the queue.
C13_Witness ==
    /\ phase = "fetch"
    /\ ~step.s0.ie
    /\ step.irq = 0
    /\ Len(pending_interrupts) = 2

\* C14: the queue changes only when the supervisor appends one interrupt
\* or when the interrupt check at the start of a step removes its oldest
\* entry and dispatches exactly that one; a dispatch always comes with
\* such a removal.  So at most one interrupt is taken per step, never
\* during an instruction, in the order sent, none lost and none twice.
C14_Fifo ==
    [][/\ pending_interrupts' # pending_interrupts
          => \/ \E interrupt \in Interrupt :
                   pending_interrupts' = Append(pending_interrupts, interrupt)
             \/ /\ phase = "poll"
                /\ phase' = "fetch"
                /\ pending_interrupts # << >>
                /\ pending_interrupts' = Tail(pending_interrupts)
                /\ step'.irq = Head(pending_interrupts)
       /\ (phase = "poll" /\ phase' = "fetch" /\ step'.irq # 0)
          => /\ pending_interrupts # << >>
             /\ pending_interrupts' = Tail(pending_interrupts)
             /\ step'.irq = Head(pending_interrupts)
             /\ pc' = read_s16(mem, Head(pending_interrupts)).v]_vars

\* The older of two different pending interrupts has been dispatched and
\* the newer one is still waiting.
C14_Witness ==
    /\ phase = "fetch"
    /\ step.irq # 0
    /\ Len(pending_interrupts) = 1
    /\ pending_interrupts[1] # step.irq

\* C15: no step aborts: whatever the instruction word, a step either runs
\* to its end or returns an error to Cpu::run, which can step again.
C15_NoAbort == phase \notin {"panic:fetch", "panic:exec"}

\* The opcode field of the word fetched by the step in progress.
OpcodeField == Field32(ir, 32 - OPCODE_BITS, OPCODE_BITS)

\* The step in progress has fetched and decoded, with or without success.
Decoded == step.n > 0 /\ phase \notin {"fetch", "panic:fetch"}

\* C16: decoding fails exactly when the opcode field is one of 0x03..0x07,
\* 0x17..0x1B, 0x1E, 0x1F, every other value of the field belongs to
\* exactly one shape, and a step whose decoding fails sends exactly one
\* Log(Error) carrying Opcode(value) and, if it dispatched no interrupt,
\* leaves pc, the registers, Hi/Lo, memory and the interrupt flag alone.
C16_DecodeFailure ==
    LET Unassigned == (3..7) \cup (23..27) \cup {30, 31}
        Shapes == {OpcodeOp, OpcodeAddr, OpcodeImm, OpcodeReg, OpcodeRegImm,
                   OpcodeRegReg, OpcodeRegRegReg, OpcodeRegRegImm}
    IN  /\ Decoded
           => Cardinality({enum \in Shapes : try_from(enum, OpcodeField) # {}})
                  = IF OpcodeField \in Unassigned THEN 0 ELSE 1
        /\ Decoded => (instr = NoInstr <=> OpcodeField \in Unassigned)
        /\ (Decoded /\ instr = NoInstr)
           => /\ phase = "poll"
              /\ SignalsOfStep = <<LogError(OpcodeField)>>
              /\ step.irq = 0 => Cur = step.s0

\* A word with opcode field 0x1F has been refused and the engine is ready
\* for its next step.
C16_Witness ==
    /\ Decoded
    /\ instr = NoInstr
    /\ OpcodeField = 31
    /\ phase = "poll"
    /\ step.irq = 0
    /\ pc = step.pc0

\* The base register of a load or a store, and base + offset as an
\* integer, not reduced to 16 bits.
BaseReg(i) == IF i.opcode \in {"SW", "SB"} THEN i.reg1 ELSE i.reg2
EffectiveAddr(i) == RegGet(indexed, BaseReg(i)) + as_i16(i.imm)

\* C17: LW, LBU, SW and SB access the address base + offset, the sum
\* taken without wrap-around; when the sum is below 0 or above 0xFFFF the
\* access fails, the instruction does not run to its end, and memory and
\* the registers stay as they were.
C17_NoWrappedAccess ==
    /\ []((phase = "poll" /\ instr.opcode \in {"LW", "LBU", "SW", "SB"})
          => /\ EffectiveAddr(instr) \in 0..65535 \/ instr.reg1 = instr.reg2
             /\ (instr.opcode = "LW" /\ instr.reg1 \notin {Zero, instr.reg2})
                => RegGet(indexed, instr.reg1) = read_s16(mem, EffectiveAddr(instr)).v
             /\ (instr.opcode = "LBU" /\ instr.reg1 \notin {Zero, instr.reg2})
                => RegGet(indexed, instr.reg1) = read_u8(mem, EffectiveAddr(instr)).v)
    /\ [][(/\ phase = "exec"
           /\ instr.opcode \in {"LW", "LBU", "SW", "SB"}
           /\ EffectiveAddr(instr) \notin 0..65535)
          => /\ phase' \in {"exec", "panic:exec"}
             /\ mem' = mem
             /\ indexed' = indexed
             /\ pc' = pc]_vars

\* LBU from address 0 - 1 has failed; the byte at 0xFFFF was not loaded.
C17_Witness ==
    /\ phase = "panic:exec"
    /\ instr.opcode = "LBU"
    /\ EffectiveAddr(instr) = -1
    /\ mem = step.s0.mem
    /\ indexed = step.s0.indexed

\* `instr` is about to move pc by its PC-relative offset: J, JAL, or a
\* branch whose condition holds.
JumpsRelative ==
    \/ instr.opcode \in {"J", "JAL"}
    \/ instr.opcode = "BT" /\ as_bool(RegGet(indexed, instr.reg1))
    \/ instr.opcode = "BF" /\ ~as_bool(RegGet(indexed, instr.reg1))

\* C18: J, JAL and a taken BT or BF set pc to pc + offset, and when that
\* sum lies outside 0..0xFFFF the instruction fails: it never runs to its
\* end with pc set to the sum wrapped modulo 2^16.
C18_JumpOverflow ==
    [][(phase = "exec" /\ JumpsRelative /\ phase' # "exec")
       => IF pc + as_i16(instr.imm) \in 0..65535
          THEN phase' = "poll" /\ pc' = pc + as_i16(instr.imm)
          ELSE phase' = "panic:exec" /\ pc' = pc]_vars

\* The second operand of the addition or subtraction `instr`, as a value
\* modulo 2^16: regs[rt], or the ten immediate bits of the fetched word
\* (bits 17..8 of ir) with bit 9 as the sign.
Imm10Bits == (ir[1] % 4) * 256 + (ir[2] \div 256)
SecondOperand ==
    IF instr.opcode \in {"ADDI", "SUBI"}
    THEN (IF Imm10Bits >= 512 THEN Imm10Bits + 65536 - 1024 ELSE Imm10Bits)
    ELSE RegGet(indexed, instr.reg3)

\* C19: ADD, ADDU and ADDI write (a + b) mod 2^16 to rd, SUB, SUBU and
\* SUBI write (a - b) mod 2^16, for every operand value and with the
\* immediate of ADDI/SUBI sign-extended from ten bits; none of them traps on
\* overflow: the instruction runs to its end.
C19_Wrapping ==
    [][(/\ phase = "exec"
        /\ instr.opcode \in {"ADD", "ADDU", "ADDI", "SUB", "SUBU", "SUBI"}
        /\ phase' # "exec")
       => /\ phase' = "poll"
          /\ instr.reg1 # Zero
             => RegGet(indexed', instr.reg1)
                = IF instr.opcode \in {"ADD", "ADDU", "ADDI"}
                  THEN (RegGet(indexed, instr.reg2) + SecondOperand) % 65536
                  ELSE (RegGet(indexed, instr.reg2) + 65536 - SecondOperand) % 65536]_vars

\* ADDI rv, t0, 1 with t0 = 32767 has left rv = 0x8000.
C19_Witness ==
    /\ phase = "poll"
    /\ instr = InstrRRI("ADDI", Rv, T0, 1)
    /\ RegGet(step.s0.indexed, T0) = 32767
    /\ RegGet(indexed, Rv) = 32768
    /\ as_i16(RegGet(indexed, Rv)) = -32768

\* The order of two register values read as two's-complement numbers:
\* adding 2^15 modulo 2^16 moves the negative half below the positive one.
Biased(u) == (u + 32768) % 65536

\* The relation the test instruction `instr` is about, on the register
\* values before it runs.
Relation ==
    LET a == RegGet(indexed, instr.reg2)
        b == RegGet(indexed, instr.reg3)
    IN  CASE instr.opcode = "TLT" -> Biased(a) < Biased(b)
          [] instr.opcode = "TGE" -> ~(Biased(a) < Biased(b))
          [] instr.opcode = "TLTU" -> a < b
          [] instr.opcode = "TGEU" -> ~(a < b)
          [] instr.opcode = "TEQ" -> a = b
          [] instr.opcode = "TNE" -> a # b
          [] instr.opcode \in {"TEZ", "NOT"} -> a = 0
          [] instr.opcode = "TNZ" -> a # 0

\* C20: TLT, TGE, TEQ, TNE, TLTU, TGEU, TEZ, TNZ and NOT leave exactly 1 in
\* rd when their relation holds and exactly 0 when it does not: TLT/TGE
\* order the operands as signed values, TLTU/TGEU as unsigned ones, and NOT
\* writes 1 iff regs[rs] = 0.
C20_ZeroOrOne ==
    [][(/\ phase = "exec"
        /\ instr.opcode \in {"TLT", "TGE", "TEQ", "TNE", "TLTU", "TGEU",
                             "TEZ", "TNZ", "NOT"}
        /\ phase' = "poll"
        /\ instr.reg1 # Zero)
       => RegGet(indexed', instr.reg1) = (IF Relation THEN 1 ELSE 0)]_vars

\* TLT rv, t0, t1 with t0 = 0x8000 and t1 = 1 has left rv = 1: the operands
\* were ordered as signed values.
C20_Witness ==
    /\ phase = "poll"
    /\ instr = InstrRRR("TLT", Rv, T0, T1)
    /\ RegGet(step.s0.indexed, T0) = 32768
    /\ RegGet(step.s0.indexed, T1) = 1
    /\ RegGet(indexed, Rv) = 1

\* The u32 product of two u16 operands as a (high, low) pair of 16-bit
\* words, by doubling and adding modulo 2^32, one bit of b at a time.
RECURSIVE ShiftAdd(_, _)
ShiftAdd(a, b) ==
    LET AddPair(p, q) ==
            <<(p[1] + q[1] + ((p[2] + q[2]) \div 65536)) % 65536, (p[2] + q[2]) % 65536>>
    IN  IF b = 0 THEN <<0, 0>>
        ELSE LET half == ShiftAdd(a, b \div 2)
                 twice == AddPair(half, half)
             IN  IF b % 2 = 1 THEN AddPair(twice, <<0, a>>) ELSE twice

\* C21: MUL leaves in (Hi, Lo) the 32-bit two's-complement product of the
\* signed operands, MULU the 32-bit product of the unsigned operands, Lo
\* the low and Hi the high sixteen bits; neither changes a general-purpose
\* register; and no instruction but MVLO and MVHI depends on Hi or Lo.
C21_Product ==
    /\ [][(phase = "exec" /\ instr.opcode \in {"MUL", "MULU"} /\ phase' = "poll")
          => /\ indexed' = indexed
             /\ instr.opcode = "MUL"
                => as_i16(hi') * 65536 + lo'
                   = as_i16(RegGet(indexed, instr.reg1)) * as_i16(RegGet(indexed, instr.reg2))
             /\ instr.opcode = "MULU"
                => <<hi', lo'>>
                   = ShiftAdd(RegGet(indexed, instr.reg1), RegGet(indexed, instr.reg2))]_vars
    /\ []((phase = "exec" /\ instr.opcode \notin {"MVLO", "MVHI"})
          => LET r == Exec(Cur, instr, InstrSize(instr), overflow_checks)
                 \* the same instruction with other values in Hi and Lo
                 q == Exec([Cur EXCEPT !.hi = (hi + 1) % 65536,
                                       !.lo = (lo + 21845) % 65536],
                           instr, InstrSize(instr), overflow_checks)
             IN  /\ q.ok = r.ok
                 /\ q.sigs = r.sigs
                 /\ q.s.indexed = r.s.indexed
                 /\ q.s.pc = r.s.pc
                 /\ q.s.mem = r.s.mem
                 /\ q.s.ie = r.s.ie
                 /\ IF instr.opcode \in {"MUL", "MULU"} /\ r.ok
                    THEN q.s.hi = r.s.hi /\ q.s.lo = r.s.lo
                    ELSE r.s.hi = hi /\ r.s.lo = lo)

\* MULU t0, t1 with both operands 0xFFFF has left 0xFFFE0001 in (Hi, Lo),
\* where the signed product would be 1.
C21_Witness ==
    /\ phase = "poll"
    /\ instr = InstrRR("MULU", T0, T1)
    /\ RegGet(indexed, T0) = 65535
    /\ RegGet(indexed, T1) = 65535
    /\ hi = 65534
    /\ lo = 1

\* C22: DIV and DIVU divide regs[rs] by regs[rt], signed respectively
\* unsigned, and leave the quotient in Lo and the remainder in Hi; when
\* regs[rt] is 0 they raise DIV_BY_ZERO instead, the engine stays alive and
\* Hi and Lo are left as they were.
C22_Divide ==
    /\ [](instr.opcode \in {"DIV", "DIVU"} => ~Panicked)
    /\ [][(phase = "exec" /\ instr.opcode \in {"DIV", "DIVU"} /\ phase' # "exec")
          => LET a == RegGet(indexed, instr.reg1)
                 b == RegGet(indexed, instr.reg2)
                 Abs(x) == IF x < 0 THEN 0 - x ELSE x
                 sq == (IF (as_i16(a) < 0) = (as_i16(b) < 0) THEN 1 ELSE 0 - 1)
                       * (Abs(as_i16(a)) \div Abs(as_i16(b)))
             IN  /\ phase' = "poll"
                 /\ IF b = 0
                    THEN hi' = hi /\ lo' = lo
                    ELSE IF instr.opcode = "DIVU"
                    THEN lo' = a \div b /\ hi' = a % b
                    ELSE lo' = U16(sq) /\ hi' = U16(as_i16(a) - sq * as_i16(b))]_vars

\* C23: EXN 0 sends exactly one IllegalInstr signal and EXN 1 exactly one
\* Breakpoint signal; pc then advances by 2, the size of the instruction,
\* and the registers, Hi/Lo and memory are unchanged.
C23_ExnSignals ==
    /\ [][(phase = "exec" /\ instr.opcode = "EXN" /\ instr.imm \in {0, 1}
           /\ phase' # "exec")
          => /\ phase' = "poll"
             /\ supervisor' = Append(supervisor,
                                     IF instr.imm = 0 THEN IllegalInstr ELSE Breakpoint)
             /\ pc' = pc + 2
             /\ indexed' = indexed
             /\ hi' = hi
             /\ lo' = lo
             /\ mem' = mem]_vars
    /\ []((phase = "poll" /\ instr.opcode = "EXN" /\ instr.imm \in {0, 1})
          => Cardinality({k \in 1..Len(SignalsOfStep) :
                             SignalsOfStep[k].kind # "Log"}) = 1)

\* EXN 1 has run: the Breakpoint signal is the last message sent and pc is
\* two bytes further.
C23_Witness ==
    /\ phase = "poll"
    /\ instr = InstrI("EXN", 1)
    /\ supervisor[Len(supervisor)] = Breakpoint
    /\ pc = step.pc0 + 2
    /\ indexed = step.s0.indexed /\ mem = step.s0.mem

\* C24: a newly created CPU has sp = USER_END - 1 = 0xEFFE, every other
\* register 0, pc = ROM_START and Hi = Lo = 0; reset from any reachable
\* state gives exactly these values, and a second reset changes nothing.
C24_Reset ==
    LET Fresh(c) ==
            /\ RegGet(c.indexed, Sp) = 61438
            /\ \A reg \in 0..15 : reg # Sp => RegGet(c.indexed, reg) = 0
            /\ c.pc = 2048
            /\ c.hi = 0
            /\ c.lo = 0
    IN  /\ Fresh(reset(Cur).cpu)
        /\ reset(reset(Cur).cpu) = reset(Cur)
        /\ (step.n = 0 /\ phase = "poll") => Fresh(Cur)

\* A state that reset has something to restore in: pc, a register and Hi
\* have all left their initial values.
C24_Witness ==
    /\ pc # ROM_START
    /\ RegGet(indexed, T0) # 0
    /\ hi # 0
    /\ reset(Cur).cpu # Cur
    /\ reset(Cur).cpu.pc = ROM_START

\* C25: for every address N in VTTY_START..VTTY_END, a 16-bit store of w to
\* N leaves w mod 256 in the framebuffer byte of N and w div 256 in the byte
\* of N + 1, and changes no other byte of the framebuffer.
C25_VttyLittleEndian ==
    [][(phase = "exec" /\ instr.opcode = "SW" /\ StoreAddr \in VTTY_START..VTTY_END
        /\ phase' # "exec")
       => /\ phase' = "poll"
          /\ ByteAt(mem'.vtty, StoreAddr - VTTY_START) = StoreValue % 256
          /\ ByteAt(mem'.vtty, StoreAddr + 1 - VTTY_START) = StoreValue \div 256
          /\ \A o \in (DOMAIN mem.vtty \cup DOMAIN mem'.vtty)
                      \ {StoreAddr - VTTY_START, StoreAddr + 1 - VTTY_START} :
                ByteAt(mem'.vtty, o) = ByteAt(mem.vtty, o)]_vars

\* C26: a step that fetches a word that decodes at a pc in the breakpoint
\* set enters debug mode and does not go on to execute before the prompt:
\* the registers, Hi/Lo, memory and pc at the prompt are those of the fetch.
\* With debug mode off and pc outside the set the instruction is executed
\* without a prompt.
C26_BreakpointFirst ==
    /\ [][(phase = "fetch" /\ phase' # "fetch" /\ instr' # NoInstr
           /\ pc \in breakpoints)
          => /\ in_debug_mode'
             /\ phase' # "exec"
             /\ UNCHANGED <<indexed, pc, hi, lo, mem>>]_vars
    /\ [][(phase' = "exec" /\ phase # "exec" /\ in_debug_mode') => phase = "prompt"]_vars
    /\ [][(phase = "fetch" /\ phase' # "fetch" /\ instr' # NoInstr
           /\ pc \notin breakpoints /\ ~in_debug_mode)
          => ~in_debug_mode' /\ phase' # "prompt"]_vars

\* The prompt of a later step, at the breakpoint ROM_START + 4, with
\* nothing typed yet and the state as the step found it.
C26_Witness ==
    /\ phase = "prompt"
    /\ step.n > 1
    /\ pc = ROM_START + 4
    /\ pc \in breakpoints
    /\ in_debug_mode
    /\ step.dbg = << >>
    /\ Cur = step.s0

\* The address of the memory word the debugger value `l` names in state s:
\* eval(base) + sign_extend(eval(offset)).
DbgWordAddr(s, l) ==
    eval_dbg_val_rvalue(s, l.base).v + as_i16(eval_dbg_val_rvalue(s, l.offset).v)

\* What the left side `l` of an assignment holds in state s: a register
\* (zero reads 0), pc, lo, hi, or a big-endian memory word.
LhsValue(s, l) ==
    CASE l.k = "Gpr" -> IF l.v = Zero THEN 0 ELSE s.indexed[l.v - 1]
      [] l = ValPc -> s.pc
      [] l = ValLo -> s.lo
      [] l = ValHi -> s.hi
      [] l.k = "Mem" -> read_u8(s.mem, DbgWordAddr(s, l)).v * 256
                        + read_u8(s.mem, DbgWordAddr(s, l) + 1).v

\* State s with value v in `l` and nothing else changed.
LhsAssigned(s, l, v) ==
    CASE l.k = "Gpr" -> IF l.v = Zero THEN s ELSE [s EXCEPT !.indexed[l.v - 1] = v]
      [] l = ValPc -> [s EXCEPT !.pc = v]
      [] l = ValLo -> [s EXCEPT !.lo = v]
      [] l = ValHi -> [s EXCEPT !.hi = v]
      [] l.k = "Mem" ->
            [s EXCEPT !.mem = write_u8(write_u8(s.mem, DbgWordAddr(s, l), v \div 256).m,
                                       DbgWordAddr(s, l) + 1, v % 256).m]

\* C27: the command lhs = rhs evaluates rhs in the state before the
\* command, writes that value to lhs (a register, pc, lo, hi or a
\* big-endian memory word), reports the value lhs held before, and changes
\* nothing else; with the zero register as lhs it reports 0 and changes
\* nothing.
C27_DbgSet ==
    [][(phase = "prompt" /\ phase' = "prompt" /\ Len(step'.dbg) = Len(step.dbg) + 1)
       => LET l == DbgLhs[step'.dbg[Len(step'.dbg)]]
          IN  /\ \E r \in 1..Len(DbgRhs) :
                    LET v == eval_dbg_val_rvalue(Cur, DbgRhs[r])
                    IN  /\ v.ok
                        /\ Cur' = LhsAssigned(Cur, l, v.v)
                        /\ eval_dbg_cmd_Set(Cur, l, DbgRhs[r]).prev = LhsValue(Cur, l)
                        /\ l # ValGpr(Zero) => LhsValue(Cur', l) = v.v
              /\ l = ValGpr(Zero) => Cur' = Cur
              /\ UNCHANGED <<ir, in_debug_mode, breakpoints, pending_interrupts,
                             supervisor, instr>>]_vars

\* [sp - 2] = 5 has been typed at the prompt: the word at 0xEFFC is 0x0005,
\* high byte first.
C27_Witness ==
    /\ phase = "prompt"
    /\ step.dbg # << >>
    /\ LastDbg(step) = ValMem(ValGpr(Sp), ValNeg(ValU16(2)))
    /\ read_u8(mem, 61436).v = 0
    /\ read_u8(mem, 61437).v = 5

\* C28: the breakpoints are a set ordered by address.  Adding an address
\* already in it leaves it unchanged; with n breakpoints, -b #k for k in
\* 1..n removes the k-th smallest address and no other; for k = 0 or k > n
\* the set is unchanged and the prompt goes on.
C28_Breakpoints ==
    /\ []((phase = "prompt")
          => \A i \in 1..Len(DbgArgs) :
                LET k == eval_dbg_val_rvalue(Cur, DbgArgs[i]).v
                    r == eval_dbg_cmd_RemoveBreakpoint(breakpoints, k)
                IN  /\ r.ok
                    /\ IF k \in 1..Cardinality(breakpoints)
                       THEN \E a \in breakpoints :
                               /\ Cardinality({b \in breakpoints : b <= a}) = k
                               /\ r.bps = breakpoints \ {a}
                       ELSE r.bps = breakpoints)
    /\ [][(phase = "prompt" /\ budget'.cmds < budget.cmds /\ step'.dbg = step.dbg)
          => /\ phase' = "prompt"
             /\ Cardinality(breakpoints') \in {Cardinality(breakpoints) - 1,
                                               Cardinality(breakpoints),
                                               Cardinality(breakpoints) + 1}]_vars

\* C29: debug mode is left by the continue command only, which goes on to
\* run the paused instruction; while it is set every instruction is run
\* from the prompt, one instruction for one empty line; and once it is
\* cleared no prompt appears and the mode stays off until a step fetches at
\* a pc that is in the breakpoint set.
C29_DebugMode ==
    /\ [][(in_debug_mode /\ ~in_debug_mode')
          => /\ phase = "prompt"
             /\ phase' = "exec"
             /\ UNCHANGED <<indexed, pc, hi, lo, mem, breakpoints, instr, executed>>]_vars
    /\ [][(phase' = "exec" /\ phase # "exec" /\ in_debug_mode') => phase = "prompt"]_vars
    /\ [][(phase = "prompt" /\ phase' = "exec" /\ in_debug_mode')
          => UNCHANGED <<indexed, pc, hi, lo, mem, breakpoints, instr, executed>>]_vars
    /\ [][Len(executed') > Len(executed)
          => /\ phase = "exec"
             /\ Len(executed') = Len(executed) + 1
             /\ in_debug_mode => phase' # "exec"]_vars
    /\ [][(~in_debug_mode /\ phase' # phase /\ phase = "fetch")
          => IF pc \in breakpoints THEN phase' # "exec"
             ELSE ~in_debug_mode' /\ phase' # "prompt"]_vars
    /\ [][(~in_debug_mode /\ in_debug_mode') => phase = "fetch" /\ pc \in breakpoints]_vars

\* After continue: debug mode is off, a breakpoint is set, and two
\* instructions have run, the second without a prompt.
C29_Witness ==
    /\ ~in_debug_mode
    /\ breakpoints # {}
    /\ phase = "poll"
    /\ Len(executed) >= 2
    /\ step.pc0 \notin breakpoints

\* C30: the interrupts-enabled flag changes only when INRE or KRET sets
\* it, INRD clears it or an interrupt dispatch clears it (and reset sets
\* it); every other instruction, a decode failure and every debugger
\* command leave it as it is.
C30_FlagFrame ==
    /\ [][interrupts_enabled' # interrupts_enabled
          => \/ /\ phase = "exec"
                /\ instr.opcode \in {"INRE", "KRET"}
                /\ interrupts_enabled'
             \/ /\ phase = "exec"
                /\ instr.opcode = "INRD"
                /\ ~interrupts_enabled'
             \/ /\ phase = "poll"
                /\ step'.irq # 0
                /\ ~interrupts_enabled']_vars
    /\ [][(phase = "exec" /\ phase' = "poll" /\ instr.opcode \in {"INRE", "KRET", "INRD"})
          => interrupts_enabled' = (instr.opcode # "INRD")]_vars
    /\ [][(phase = "poll" /\ step'.n > step.n /\ step'.irq # 0) => ~interrupts_enabled']_vars
    /\ [](reset(Cur).cpu.ie)

\* INRD has run in a step that began with interrupts enabled: they are
\* disabled now.
C30_Witness ==
    /\ phase = "poll"
    /\ instr.opcode = "INRD"
    /\ step.s0.ie
    /\ step.irq = 0
    /\ ~interrupts_enabled

\* C31: NEG rd, rs writes the two's-complement negation of regs[rs] modulo
\* 2^16 for every operand value and never traps; regs[rs] = 0x8000 gives
\* rd = 0x8000, and pc advances by the size of the instruction.
C31_Negate ==
    [][(phase = "exec" /\ instr.opcode = "NEG" /\ phase' # "exec")
       => /\ phase' = "poll"
          /\ pc' = pc + InstrSize(instr)
          /\ instr.reg1 # Zero
             => RegGet(indexed', instr.reg1)
                = (65536 - RegGet(indexed, instr.reg2)) % 65536]_vars

\* C32: for every regs[rs] and every shift amount regs[rt] in 0..65535, SHL
\* writes (regs[rs] * 2^regs[rt]) mod 2^16, SHR writes
\* floor(regs[rs] / 2^regs[rt]) and SHRA writes
\* floor(signed(regs[rs]) / 2^regs[rt]); amounts of 16 or more do not trap
\* and are not reduced modulo 16 (they give 0, or 0xFFFF for SHRA of a
\* negative value).
C32_Shifts ==
    [][(phase = "exec" /\ instr.opcode \in {"SHL", "SHR", "SHRA"} /\ phase' # "exec")
       => LET a == RegGet(indexed, instr.reg2)
              n == RegGet(indexed, instr.reg3)
              sa == IF a >= 32768 THEN a - 65536 ELSE a
              expected ==
                  IF n >= 16
                  THEN (IF instr.opcode = "SHRA" /\ a >= 32768 THEN 65535 ELSE 0)
                  ELSE CASE instr.opcode = "SHL" -> (a * Pow2(n)) % 65536
                         [] instr.opcode = "SHR" -> a \div Pow2(n)
                         [] instr.opcode = "SHRA" -> (sa \div Pow2(n)) % 65536
          IN /\ phase' = "poll"
             /\ pc' = pc + InstrSize(instr)
             /\ instr.reg1 # Zero => RegGet(indexed', instr.reg1) = expected]_vars

\* C33: fetch succeeds for every pc at which a complete instruction lies
\* inside ROM, an instruction that ends at the last ROM byte included: the
\* step does not abort in fetch, and the instruction decoded is the one the
\* ROM bytes at pc, pc + 1, ... spell, whatever lies beyond it.
C33_FetchInsideRom ==
    [][(phase = "fetch" /\ phase' # "fetch" /\ pc \in ROM_START..ROM_END)
       => LET o == pc - ROM_START
              d == from_bits(Word32(ByteAt(mem.rom, o) * 256 + ByteAt(mem.rom, o + 1),
                                    ByteAt(mem.rom, o + 2) * 256 + ByteAt(mem.rom, o + 3)))
          IN  (d.ok /\ o + InstrSize(d.instr) <= ROM_SIZE)
              => /\ phase' # "panic:fetch"
                 /\ instr' = d.instr]_vars

\* C34: JAL and JRAL write the link before they read the target.  After
\* JAL rd, offset: regs[rd] = pc_before + sz and pc = pc_before + offset.
\* After JRAL rd, rs: regs[rd] = pc_before + sz and pc is regs[rs] as read
\* after the link write, so with rd = rs it is pc_before + sz; with
\* rd = zero the link is discarded.
C34_LinkFirst ==
    [][(phase = "exec" /\ instr.opcode \in {"JAL", "JRAL"} /\ phase' = "poll")
       => /\ IF instr.reg1 = Zero
             THEN indexed' = indexed
             ELSE RegGet(indexed', instr.reg1) = pc + InstrSize(instr)
          /\ pc' = CASE instr.opcode = "JAL" -> pc + as_i16(instr.imm)
                     [] instr.reg1 = instr.reg2 /\ instr.reg1 # Zero ->
                           pc + InstrSize(instr)
                     [] OTHER -> RegGet(indexed, instr.reg2)]_vars

\* C35: EXN 0x0003 (DEBUG_PUTS) emits exactly one DebugPuts log whose value
\* has exactly regs[a1] bytes, regs[a1] taken as an unsigned count
\* 0..65535, read from regs[a0], regs[a0] + 1, ..., and it changes no
\* register and no memory byte.
C35_DebugPuts ==
    [][(phase = "exec" /\ instr.opcode = "EXN" /\ instr.imm = DEBUG_PUTS
        /\ phase' = "poll")
       => /\ indexed' = indexed
          /\ mem' = mem
          /\ Len(supervisor') = Len(supervisor) + 1
          /\ LET sig == supervisor'[Len(supervisor')]
                 value == Tail(sig.data)
             IN  /\ sig.kind = "Log" /\ sig.msg = "DebugPuts"
                 /\ Head(sig.data) = RegGet(indexed, A0)
                 /\ Len(value) = RegGet(indexed, A1)
                 /\ \A k \in 1..Len(value) :
                       value[k] = read_u8(mem, RegGet(indexed, A0) + k - 1).v]_vars

\* C36: executing EXN 0x0001 takes the CPU from Running to Debug-paused:
\* once the Breakpoint signal is emitted the CPU is in debug mode, and the
\* step that follows does not go from its fetch to the execution of the
\* next instruction without the debugger prompt.
C36_ExnPauses ==
    /\ [][(phase = "exec" /\ instr.opcode = "EXN" /\ instr.imm = DEBUG_BREAKPOINT
           /\ phase' = "poll")
          => /\ supervisor' = Append(supervisor, Breakpoint)
             /\ in_debug_mode']_vars
    /\ [][(phase = "fetch" /\ step.prev.opcode = "EXN"
           /\ step.prev.imm = DEBUG_BREAKPOINT)
          => phase' # "exec"]_vars

\* The interrupts the check at the head of a step has taken so far, in a
\* run whose supervisor sends MaxQueue interrupts.
Dispatched == (MaxQueue - budget.irqs) - Len(pending_interrupts)

\* Every pending interrupt has the handler of the ROM in its vector, and
\* that handler does not stop at HALT.
HandlersReturn ==
    /\ \A k \in 1..Len(pending_interrupts) :
          read_s16(mem, pending_interrupts[k]).v = ROM_START + HandlerAt
    /\ ByteAt(mem.rom, HandlerAt) # Asm(InstrO("HALT"))[1]

\* The steps within which a handler of the ROMs has returned and the next
\* step has begun.
ResponseSteps == 3

InHandler ==
    \E i \in 1..Len(executed) :
        /\ executed[i].irq # 0
        /\ \A j \in i..Len(executed) : executed[j].instr.opcode \notin {"KRET", "INRE"}

\* C38: interrupts do not nest.  Between a dispatch and the next KRET or
\* INRE of the handler nothing is taken from the queue and nothing is
\* dispatched, so no second dispatch overwrites the return address in k0;
\* interrupts sent meanwhile are appended to the queue, in order.
C38_NoNesting ==
    [][InHandler
       => /\ \/ pending_interrupts' = pending_interrupts
             \/ \E interrupt \in Interrupt :
                   pending_interrupts' = Append(pending_interrupts, interrupt)
          /\ (phase = "poll" /\ phase' = "fetch")
             => /\ step'.irq = 0
                /\ RegGet(indexed', K0) = RegGet(indexed, K0)
                /\ pc' = pc
                /\ ~interrupts_enabled']_vars

\* A handler is running past its first instruction, the step in progress
\* has dispatched nothing, and the second interrupt is waiting in the queue.
C38_Witness ==
    /\ InHandler
    /\ phase = "fetch"
    /\ step.irq = 0
    /\ Len(pending_interrupts) = 1
    /\ budget.irqs = 0
    /\ pc = ROM_START + HandlerAt + 1

\* C39: Cpu::reset zeroes user RAM, kernel RAM with the interrupt vector
\* table, and the ROM block, so that the program has to be loaded again
\* with load_rom before it can run; it leaves the VTTY buffer alone, and
\* the breakpoint set and the queue of pending interrupts are not among
\* the things it writes.
C39_ResetMemory ==
    LET r == reset(Cur)
        back == load_rom(r.cpu, mem.rom)
    IN  /\ r.cpu.mem.user = new_zeroed
        /\ r.cpu.mem.kernel = new_zeroed
        /\ r.cpu.mem.rom = new_zeroed
        /\ \A a \in {ROM_START, ROM_END, USER_START, USER_END, KERNEL_START} :
              read_u8(r.cpu.mem, a).v = 0
        /\ \A interrupt \in Interrupt : read_s16(r.cpu.mem, interrupt).v = 0
        /\ r.cpu.mem.vtty = mem.vtty
        /\ DOMAIN r = {"cpu", "ir", "in_debug_mode"}
        /\ fetch(r.cpu.mem, r.cpu.pc, overflow_checks).ir = Word32(0, 0)
        /\ back.mem.rom = mem.rom
        /\ fetch(back.mem, back.pc, overflow_checks).ir[1]
           = read_s16(mem, ROM_START).v

\* The program has installed an interrupt vector in kernel RAM and an
\* interrupt is pending: a reset clears the vector and the ROM.
C39_Witness ==
    /\ pending_interrupts # << >>
    /\ \E interrupt \in Interrupt : read_s16(mem, interrupt).v = ROM_START + HandlerAt
    /\ mem.rom # new_zeroed
    /\ reset(Cur).cpu.mem.kernel # mem.kernel
    /\ reset(Cur).cpu.mem.rom # mem.rom

\* C40: the debugger prompt comes after the instruction word has been
\* fetched and decoded.  A command at the prompt, an assignment to pc or to
\* the memory at pc included, leaves the decoded instruction as it is; the
\* instruction that executes is the one decoded from the word at the pc
\* the step fetched from; and when it is not a control-flow instruction
\* the pc afterwards is the pc the prompt left plus its size.
C40_PromptAfterDecode ==
    /\ [][phase = "prompt" => (instr' = instr /\ ir' = ir)]_vars
    /\ []((phase \in {"prompt", "exec"} /\ step.irq = 0)
          => instr = from_bits(fetch(step.s0.mem, step.pc0, overflow_checks).ir).instr)
    /\ [][(phase = "exec" /\ phase' = "poll" /\ ~ControlFlow(instr))
          => pc' = pc + InstrSize(instr)]_vars

\* The prompt of a step that fetched LI at ROM_START assigned 5 to pc, and
\* LI ran: pc is 5 plus the four bytes of LI.
C40_Witness ==
    /\ phase = "poll"
    /\ DbgAssignedPc
    /\ step.pc0 = ROM_START
    /\ instr.opcode = "LI"
    /\ pc = 5 + InstrSize(instr)
    /\ executed # << >>
    /\ executed[Len(executed)].at = 5

====
